---- MODULE Spec2Model ----
(***************************************************************************)
(* Refresh orchestration of the Claude usage monitor extension:            *)
(* RefreshManager (mode switching, timers, the refresh cycle and its       *)
(* in-flight guard, disposal) together with the FileWatcher objects it     *)
(* owns.  Timers, fs.watch handles and event emitters of the host runtime  *)
(* are modelled explicitly so that a handle the manager forgot about is    *)
(* still able to fire.  A second part models the quota fetch on its own:   *)
(* withRetry() of utils/retry.ts, and ClaudeAPIService.fetchQuota() that   *)
(* runs the usage request under it.                                        *)
(***************************************************************************)
EXTENDS Integers, Sequences, FiniteSets, TLC

\* ------------------------------------------------------------------ bounds

\* Snapshot objects (createEmptyMetrics() calls) that may be allocated.
MaxRefs == 2
\* FileWatcher objects that may be constructed (one per realtime transition).
MaxWatchers == 2
\* The largest maxAttempts option a withRetry() call is given.
MaxAttemptsOption == 3
MaxClock == 1500
MaxEvents == 3

\* --------------------------------------------------------------- constants

MIN_INTERVAL_MS == 3000
MAX_INTERVAL_MS == 300000

Modes == {"realtime", "periodic", "manual"}

\* What a read of the settings can yield: a refresh mode and the seconds of
\* the two interval settings (below, inside and above the allowed range).  The
\* settings store belongs to the host; the manager reads it anew on every
\* setMode().
IntervalChoices == {0, 30, 301}
Configs == [refreshMode : Modes, refreshInterval : IntervalChoices,
            realtimeInterval : IntervalChoices]
\* The reads that can tell setMode(mode) apart: it reads only the interval of
\* the mode it installs, so one value stands for the other interval.
ConfigReads(mode) ==
    {cfg \in Configs : /\ mode # "realtime" => cfg.realtimeInterval = 30
                       /\ mode # "periodic" => cfg.refreshInterval = 30}
\* Whether the watched directory exists and whether fs.watch succeeds; both
\* matter to a realtime transition only.
WatchEnvs(mode) ==
    IF mode = "realtime" THEN {<<TRUE, TRUE>>, <<FALSE, TRUE>>, <<TRUE, FALSE>>}
    ELSE {<<TRUE, TRUE>>}

Min(a, b) == IF a < b THEN a ELSE b
Max(a, b) == IF a > b THEN a ELSE b

VARIABLES
    configListener,  \* the onDidChangeConfiguration subscription is still registered
    currentMode,     \* RefreshManager.currentMode
    fileWatcher,     \* RefreshManager.fileWatcher: 0 (null) or the id of a FileWatcher
    periodicTimer,   \* RefreshManager.periodicTimer: 0 (null) or a timer id
    disposables,     \* RefreshManager.disposables
    isRefreshing,    \* RefreshManager.isRefreshing
    lastMetrics,     \* RefreshManager.lastMetrics (ref = 0 is null)
    isDisposed,      \* RefreshManager.isDisposed
    emitters,        \* _onMetricsUpdated / _onRefreshStarted still have their listeners
    timers,          \* host runtime: the interval timers that are armed
    timerSeq,        \* host runtime: the identity of the timer created last
    watchers,        \* the FileWatcher objects constructed so far, by id
    inflight,        \* refresh() invocations suspended at an await
    nextRef,         \* next fresh object identity for a snapshot
    ret,             \* the most recent value a refresh() call settled with
    count,           \* call counts of the collaborators and of the notifications
    published,       \* payload of the last 'snapshot updated' notification delivered
    retry,           \* one withRetry() invocation: its options, locals and position
    api,             \* one fetchQuota() invocation: its locals and position
    watch,           \* one FileWatcher under a clock: its fields, its timeout, its signals
    dataService,     \* one ClaudeDataService.loadMetrics() call: its inputs and results
    quotaCalls,      \* the manager's fetchQuota() calls past getCredentials(), by position
    reentrant        \* the last refresh() call a notification handler made, and its result

managerVars ==
    <<configListener, currentMode, fileWatcher, periodicTimer, disposables,
      isRefreshing, lastMetrics, isDisposed, emitters, timers, timerSeq, watchers,
      inflight, nextRef, ret, count, published>>

\* One invocation of withRetry() and one of fetchQuota().
apiVars == <<retry, api>>

\* The services on their own, outside the manager.
serviceVars == <<watch, dataService, quotaCalls, reentrant>>

vars == <<managerVars, apiVars, serviceVars>>

modeVars == <<currentMode, fileWatcher, periodicTimer, disposables, timers, timerSeq,
              watchers>>
refreshVars == <<isRefreshing, lastMetrics, inflight, nextRef, ret, count, published>>

\* ------------------------------------------------------------ UsageMetrics

\* createEmptyMetrics(): a fresh object with zeroed counters, not available.
createEmptyMetrics(ref) ==
    [ref |-> ref, counters |-> 0,
     dataAvailable |-> FALSE, error |-> "none",
     quota |-> "none", quotaError |-> "none"]

\* The null reference of `UsageMetrics | null`.
NullMetrics == createEmptyMetrics(0)

\* The locally derived part of a snapshot.
LocalFields(m) ==
    [counters |-> m.counters, dataAvailable |-> m.dataAvailable, error |-> m.error]

\* ------------------------------------------------------------- FileWatcher

\* A FileWatcher right after its constructor: fields `watcher`, `debounceTimer`
\* and `isWatching`, plus what the host runtime holds for it: whether the
\* fs.watch handle is open, whether the debounce timeout is armed, whether
\* _onFileChanged is undisposed, and whether the manager's listener is attached.
NewFileWatcher ==
    [watcher |-> FALSE, handleOpen |-> FALSE,
     debounceTimer |-> FALSE, timeoutArmed |-> FALSE,
     isWatching |-> FALSE, emitter |-> TRUE, listener |-> FALSE]

\* FileWatcher.start(): declines when already watching, when the directory is
\* missing, or when fs.watch throws.
FileWatcher_start(w, dirExists, watchOk) ==
    IF w.isWatching THEN w
    ELSE IF ~dirExists THEN w
    ELSE IF ~watchOk THEN w
    ELSE [w EXCEPT !.watcher = TRUE, !.handleOpen = TRUE, !.isWatching = TRUE]

\* A stop that closes the handle but leaves the debounce timeout armed.
FileWatcher_stop_KeepTimeout(w) ==
    [w EXCEPT !.handleOpen = IF w.watcher THEN FALSE ELSE @,
              !.watcher = FALSE,
              !.isWatching = FALSE]

\* FileWatcher.stop(): close the handle, cancel the debounce timeout.
FileWatcher_stop(w) ==
    [w EXCEPT !.handleOpen = IF w.watcher THEN FALSE ELSE @,
              !.watcher = FALSE,
              !.timeoutArmed = IF w.debounceTimer THEN FALSE ELSE @,
              !.debounceTimer = FALSE,
              !.isWatching = FALSE]

\* FileWatcher.handleFileChange(): restart the debounce timeout.
handleFileChange(w) ==
    [w EXCEPT !.debounceTimer = TRUE, !.timeoutArmed = TRUE]

\* A dispose that disposes the emitter but does not stop the watcher.
FileWatcher_dispose_NoStop(w) ==
    [w EXCEPT !.emitter = FALSE, !.listener = FALSE]

\* FileWatcher.dispose(): stop(), then dispose the emitter (drops its listeners).
FileWatcher_dispose(w) ==
    [FileWatcher_stop(w) EXCEPT !.emitter = FALSE, !.listener = FALSE]

\* A 'changed' signal of watcher w reaches the manager's listener.
SignalReaches(w) == w.emitter /\ w.listener

\* ---------------------------------------------------- RefreshManager: modes

\* The part of the manager (and of the runtime) that mode changes act on.
ModeState ==
    [currentMode |-> currentMode, fileWatcher |-> fileWatcher,
     periodicTimer |-> periodicTimer, disposables |-> disposables,
     timers |-> timers, timerSeq |-> timerSeq, watchers |-> watchers]

TimerIds(ts) == {t.id : t \in ts}

\* The identity of the next timer object.  Two identities, handed out in turn,
\* are enough to tell a new timer from the one created just before it.
NextTimerId(seq) == 3 - seq

\* setInterval(callback, intervalMs): arms a new timer; its handle is timerSeq.
setInterval(m, intervalMs) ==
    [m EXCEPT !.timers = @ \cup {[id |-> NextTimerId(m.timerSeq), interval |-> intervalMs]},
              !.timerSeq = NextTimerId(m.timerSeq)]

\* clearInterval(handle)
clearInterval(ts, id) == {t \in ts : t.id # id}

\* A clamp that forgot the upper bound.
clampInterval_NoUpper(intervalMs) == Max(MIN_INTERVAL_MS, intervalMs)

\* RefreshManager.clampInterval
clampInterval(intervalMs) == Max(MIN_INTERVAL_MS, Min(MAX_INTERVAL_MS, intervalMs))

\* A stop that drops the timer handle without clearing the timer.
stopCurrentMode_KeepTimer(m) ==
    LET m1 == IF m.fileWatcher # 0
              THEN [m EXCEPT !.watchers[m.fileWatcher] = FileWatcher_dispose(@),
                             !.fileWatcher = 0]
              ELSE m
    IN [m1 EXCEPT !.periodicTimer = 0]

\* RefreshManager.stopCurrentMode
stopCurrentMode(m) ==
    LET m1 == IF m.fileWatcher # 0
              THEN [m EXCEPT !.watchers[m.fileWatcher] = FileWatcher_dispose(@),
                             !.fileWatcher = 0]
              ELSE m
    IN IF m1.periodicTimer # 0
       THEN [m1 EXCEPT !.timers = clearInterval(@, m1.periodicTimer),
                       !.periodicTimer = 0]
       ELSE m1

\* A realtime mode that relies on the file watcher alone, without backup timer.
startRealtimeMode_NoTimer(m, intervalMs, dirExists, watchOk) ==
    LET id == Len(m.watchers) + 1
        subscribed == [NewFileWatcher EXCEPT !.listener = TRUE]
    IN [m EXCEPT !.watchers = Append(@, FileWatcher_start(subscribed, dirExists, watchOk)),
                 !.fileWatcher = id,
                 !.disposables = Append(@, [kind |-> "fileChanged", w |-> id])]

\* RefreshManager.startRealtimeMode
startRealtimeMode(m, intervalMs, dirExists, watchOk) ==
    LET id == Len(m.watchers) + 1
        subscribed == [NewFileWatcher EXCEPT !.listener = TRUE]
        m1 == [m EXCEPT !.watchers = Append(@, FileWatcher_start(subscribed, dirExists, watchOk)),
                        !.fileWatcher = id,
                        !.disposables = Append(@, [kind |-> "fileChanged", w |-> id])]
        m2 == setInterval(m1, intervalMs)
    IN [m2 EXCEPT !.periodicTimer = m2.timerSeq]

\* RefreshManager.startPeriodicMode
startPeriodicMode(m, intervalMs) ==
    LET m1 == setInterval(m, intervalMs)
    IN [m1 EXCEPT !.periodicTimer = m1.timerSeq]

\* RefreshManager.setMode past its disposed check.  Nothing inside the try
\* block can throw (fs.watch is guarded inside FileWatcher.start), so the catch
\* branch is not reachable.
setModeBody(m, mode, cfg, dirExists, watchOk) ==
    LET m1 == [stopCurrentMode(m) EXCEPT !.currentMode = mode]
    IN CASE mode = "realtime" ->
              startRealtimeMode(m1, clampInterval(cfg.realtimeInterval * 1000),
                                dirExists, watchOk)
         [] mode = "periodic" ->
              startPeriodicMode(m1, clampInterval(cfg.refreshInterval * 1000))
         [] OTHER -> m1

\* setMode() without its disposed check.
setMode_NoDisposedCheck(m, disposed, mode, cfg, dirExists, watchOk) ==
    setModeBody(m, mode, cfg, dirExists, watchOk)

\* RefreshManager.setMode
setMode(m, disposed, mode, cfg, dirExists, watchOk) ==
    IF disposed THEN m ELSE setModeBody(m, mode, cfg, dirExists, watchOk)

\* RefreshManager.applyConfiguration
applyConfiguration(m, disposed, cfg, dirExists, watchOk) ==
    setMode(m, disposed, cfg.refreshMode, cfg, dirExists, watchOk)

\* Assign a mode state to the variables it is made of.
SetModeState(m) ==
    /\ currentMode' = m.currentMode
    /\ fileWatcher' = m.fileWatcher
    /\ periodicTimer' = m.periodicTimer
    /\ disposables' = m.disposables
    /\ timers' = m.timers
    /\ timerSeq' = m.timerSeq
    /\ watchers' = m.watchers

\* A mode change can allocate what it needs within the bounds of the model.
CanInstall(mode) ==
    mode = "realtime" => Len(watchers) < MaxWatchers

\* ------------------------------------------------------- the collaborators

\* What the stats cache file can be: absent or unparsable (read as null), a
\* valid cache, or JSON of the wrong shape (populateFromStatsCache throws midway).
StatsChoices == {"absent", "valid", "malformed"}

\* ClaudeDataService.loadMetrics, on the object createEmptyMetrics() returned.
\* `counters` is 1 when counters were copied from the cache, else 0.
loadMetrics(ref, dirExists, stats) ==
    LET metrics == createEmptyMetrics(ref)
    IN IF ~dirExists
       THEN [metrics EXCEPT !.error = "Claude data directory not found"]
       ELSE IF stats = "malformed"
       THEN [metrics EXCEPT !.counters = 1, !.error = "Error loading metrics"]
       ELSE [metrics EXCEPT !.counters = IF stats = "valid" THEN 1 ELSE 0,
                            !.dataAvailable = TRUE]

\* How the awaited loadMetrics() of the injected data service can settle.
LoadOutcomes(ref) ==
    {[thrown |-> FALSE, metrics |-> loadMetrics(ref, d, s)] :
        d \in BOOLEAN, s \in StatsChoices}
    \cup {[thrown |-> TRUE, metrics |-> createEmptyMetrics(ref)]}

\* How the awaited fetchQuota() can settle: a QuotaResult (success with data,
\* success whose parsed body is null, failure with a message), or a raised
\* Error, or a raised value that is no Error.
QuotaOutcomes ==
    { [kind |-> "result", success |-> TRUE,  data |-> "quotaData", error |-> "none"],
      [kind |-> "result", success |-> TRUE,  data |-> "none", error |-> "none"],
      [kind |-> "result", success |-> FALSE, data |-> "none", error |-> "Authentication failed"],
      [kind |-> "throwError", success |-> FALSE, data |-> "none", error |-> "socket hang up"],
      [kind |-> "throwOther", success |-> FALSE, data |-> "none", error |-> "none"] }

\* No fetchQuota() outcome (the call that settled did not reach one).
NoOutcome == [kind |-> "none", success |-> FALSE, data |-> "none", error |-> "none"]

\* A merge that reports the failure and fills in placeholder quota data.
mergeQuota_ErrorAndQuota(metrics, q) ==
    IF q.kind = "result" /\ q.success /\ q.data # "none"
    THEN [metrics EXCEPT !.quota = q.data]
    ELSE [metrics EXCEPT !.quota = "quotaData",
                         !.quotaError = IF q.kind = "throwOther" \/ q.error = "none"
                                        THEN "Failed to fetch quota" ELSE q.error]

\* A merge that starts over from an empty snapshot when the quota fetch failed.
mergeQuota_DropLocal(metrics, q) ==
    IF q.kind = "result" /\ q.success /\ q.data # "none"
    THEN [metrics EXCEPT !.quota = q.data]
    ELSE [createEmptyMetrics(metrics.ref) EXCEPT !.quotaError =
             IF q.kind = "throwOther" THEN "Failed to fetch quota" ELSE q.error]

\* RefreshManager.refresh, the inner try/catch: merge the quota outcome.
mergeQuota(metrics, q) ==
    IF q.kind = "result"
    THEN IF q.success /\ q.data # "none"
         THEN [metrics EXCEPT !.quota = q.data]
         ELSE [metrics EXCEPT !.quotaError = q.error]
    ELSE [metrics EXCEPT !.quotaError =
             IF q.kind = "throwError" THEN q.error ELSE "Failed to fetch quota"]

\* ------------------------------------------------- RefreshManager.refresh()

\* refresh() without its in-flight guard.
refreshEntry_NoBusyGuard(disposed, refreshing) ==
    IF disposed THEN "disposed" ELSE "run"

\* refresh() without its disposed check.
refreshEntry_NoDisposedCheck(disposed, refreshing) ==
    IF refreshing THEN "busy" ELSE "run"

\* The two early returns of refresh().
refreshEntry(disposed, refreshing) ==
    IF disposed THEN "disposed"
    ELSE IF refreshing THEN "busy"
    ELSE "run"

\* The flag cleared at the end of the try block instead of in a finally block.
finallyBlock_OnlyOnSuccess(refreshing, outcome) ==
    IF outcome = "rejected" THEN refreshing ELSE FALSE

\* The finally block: the value of isRefreshing once the invocation settled.
finallyBlock(refreshing, outcome) == FALSE

\* An early return that always hands out a new empty snapshot.
cachedOrEmpty_AlwaysEmpty(last, ref) == createEmptyMetrics(ref)

\* `this.lastMetrics || createEmptyMetrics()`
cachedOrEmpty(last, ref) == IF last.ref # 0 THEN last ELSE createEmptyMetrics(ref)

\* An early return that, when busy, sends the cycle in flight back to its start.
ReturnCached_Restart(kind) ==
    /\ lastMetrics.ref = 0 => nextRef <= MaxRefs
    /\ LET snap == cachedOrEmpty(lastMetrics, nextRef)
       IN /\ ret' = [kind |-> kind, snap |-> snap, overlap |-> {}, q |-> NoOutcome]
          /\ inflight' = IF kind = "busy"
                         THEN {[c EXCEPT !.pc = "load", !.overlap = @ \cup {snap.ref}] :
                                  c \in inflight}
                         ELSE inflight
    /\ nextRef' = IF lastMetrics.ref # 0 THEN nextRef ELSE nextRef + 1
    /\ count' = IF kind = "busy" THEN [count EXCEPT !.load = @ + 1] ELSE count
    /\ UNCHANGED <<isRefreshing, lastMetrics, published>>

\* An early return of refresh(): settle with the cached snapshot.
ReturnCached(kind) ==
    /\ lastMetrics.ref = 0 => nextRef <= MaxRefs
    /\ LET snap == cachedOrEmpty(lastMetrics, nextRef)
       IN /\ ret' = [kind |-> kind, snap |-> snap, overlap |-> {}, q |-> NoOutcome]
          /\ inflight' = IF kind = "busy"
                         THEN {[c EXCEPT !.overlap = @ \cup {snap.ref}] : c \in inflight}
                         ELSE inflight
    /\ nextRef' = IF lastMetrics.ref # 0 THEN nextRef ELSE nextRef + 1
    /\ UNCHANGED <<isRefreshing, lastMetrics, count, published>>

\* A start that calls loadMetrics() and fetchQuota() at once.
StartCycle_FetchAtOnce ==
    /\ nextRef <= MaxRefs
    /\ isRefreshing' = TRUE
    /\ count' = [count EXCEPT !.startedFired = @ + 1,
                              !.started = IF emitters.refreshStarted THEN @ + 1 ELSE @,
                              !.load = @ + 1,
                              !.fetch = @ + 1]
    /\ inflight' = inflight \cup
           {[pc |-> "fetch", metrics |-> createEmptyMetrics(nextRef), overlap |-> {}]}
    /\ nextRef' = nextRef + 1
    /\ UNCHANGED <<lastMetrics, ret, published>>

\* Set the flag, emit 'refresh started', call loadMetrics() and suspend.
StartCycle ==
    /\ nextRef <= MaxRefs
    /\ isRefreshing' = TRUE
    /\ count' = [count EXCEPT !.startedFired = @ + 1,
                              !.started = IF emitters.refreshStarted THEN @ + 1 ELSE @,
                              !.load = @ + 1]
    /\ inflight' = inflight \cup
           {[pc |-> "load", metrics |-> createEmptyMetrics(nextRef), overlap |-> {}]}
    /\ nextRef' = nextRef + 1
    /\ UNCHANGED <<lastMetrics, ret, published>>

\* A call of refresh() up to its first await (or its early return).
refresh ==
    LET entry == refreshEntry(isDisposed, isRefreshing)
    IN IF entry = "run" THEN StartCycle ELSE ReturnCached(entry)

\* A load step that stores the loaded snapshot as last known before the quota
\* fetch, so that the merge happens on a stored snapshot.
LoadDone_StoreEarly ==
    \E c \in inflight : \E out \in LoadOutcomes(c.metrics.ref) :
        /\ c.pc = "load"
        /\ IF out.thrown
           THEN /\ isRefreshing' = finallyBlock(isRefreshing, "rejected")
                /\ inflight' = inflight \ {c}
                /\ ret' = [kind |-> "rejected", snap |-> NullMetrics, overlap |-> c.overlap,
                           q |-> NoOutcome]
                /\ UNCHANGED <<count, lastMetrics>>
           ELSE /\ inflight' = (inflight \ {c}) \cup
                       {[c EXCEPT !.pc = "fetch", !.metrics = out.metrics]}
                /\ count' = [count EXCEPT !.fetch = @ + 1]
                /\ lastMetrics' = out.metrics
                /\ UNCHANGED <<isRefreshing, ret>>
        /\ UNCHANGED <<nextRef, published>>
        /\ UNCHANGED <<configListener, isDisposed, emitters, apiVars, serviceVars>>
        /\ UNCHANGED modeVars

\* loadMetrics() settles: either it raised (the finally block runs and the call
\* rejects) or the cycle goes on to call fetchQuota() and suspends again.
LoadDone ==
    \E c \in inflight : \E out \in LoadOutcomes(c.metrics.ref) :
        /\ c.pc = "load"
        /\ IF out.thrown
           THEN /\ isRefreshing' = finallyBlock(isRefreshing, "rejected")
                /\ inflight' = inflight \ {c}
                /\ ret' = [kind |-> "rejected", snap |-> NullMetrics, overlap |-> c.overlap,
                           q |-> NoOutcome]
                /\ UNCHANGED count
           ELSE /\ inflight' = (inflight \ {c}) \cup
                       {[c EXCEPT !.pc = "fetch", !.metrics = out.metrics]}
                /\ count' = [count EXCEPT !.fetch = @ + 1]
                /\ UNCHANGED <<isRefreshing, ret>>
        /\ UNCHANGED <<lastMetrics, nextRef, published>>
        /\ UNCHANGED <<configListener, isDisposed, emitters, apiVars, serviceVars>>
        /\ UNCHANGED modeVars

\* The rest of refresh() once fetchQuota() has settled with q: merge, store as
\* last known, publish, return, finally.
FetchSettles(c, q) ==
    /\ c.pc = "fetch"
    /\ LET metrics == mergeQuota(c.metrics, q)
       IN /\ lastMetrics' = metrics
          /\ count' = [count EXCEPT !.updatedFired = @ + 1,
                           !.updated = IF emitters.metricsUpdated THEN @ + 1 ELSE @]
          /\ published' = IF emitters.metricsUpdated THEN metrics ELSE published
          /\ ret' = [kind |-> "done", snap |-> metrics, overlap |-> c.overlap, q |-> q]
    /\ isRefreshing' = finallyBlock(isRefreshing, "resolved")
    /\ inflight' = inflight \ {c}
    /\ UNCHANGED nextRef
    /\ UNCHANGED <<configListener, isDisposed, emitters>>
    /\ UNCHANGED modeVars

\* fetchQuota() settles, in any of the ways an injected quota source can.
FetchDone ==
    \E c \in inflight : \E q \in QuotaOutcomes :
        /\ FetchSettles(c, q)
        /\ UNCHANGED <<apiVars, serviceVars>>

\* ------------------------------------------------------------ the triggers

\* An armed interval timer fires: `async () => { await this.refresh(); }`
TimerTick ==
    /\ \E t \in timers : refresh
    /\ UNCHANGED <<configListener, isDisposed, emitters, apiVars, serviceVars>>
    /\ UNCHANGED modeVars

\* fs.watch reports an event in the directory; only one for the watched file
\* name reaches handleFileChange().
FsEvent ==
    \E i \in 1..Len(watchers) : \E sameFile \in BOOLEAN :
        /\ watchers[i].handleOpen
        /\ sameFile
        /\ watchers' = [watchers EXCEPT ![i] = handleFileChange(@)]
        /\ UNCHANGED <<configListener, isDisposed, emitters, apiVars, serviceVars>>
        /\ UNCHANGED <<currentMode, fileWatcher, periodicTimer, disposables, timers, timerSeq>>
        /\ UNCHANGED refreshVars

\* The debounce timeout expires: fire _onFileChanged (the manager's listener
\* calls refresh()), then forget the timeout.
DebounceFire ==
    \E i \in 1..Len(watchers) :
        /\ watchers[i].timeoutArmed
        /\ IF SignalReaches(watchers[i])
           THEN refresh
           ELSE UNCHANGED refreshVars
        /\ watchers' = [watchers EXCEPT ![i].debounceTimer = FALSE,
                                        ![i].timeoutArmed = FALSE]
        /\ UNCHANGED <<configListener, isDisposed, emitters, apiVars, serviceVars>>
        /\ UNCHANGED <<currentMode, fileWatcher, periodicTimer, disposables, timers, timerSeq>>

\* The fs.watch handle reports 'error': the watcher stops itself.
FsError ==
    \E i \in 1..Len(watchers) :
        /\ watchers[i].handleOpen
        /\ watchers' = [watchers EXCEPT ![i] = FileWatcher_stop(@)]
        /\ UNCHANGED <<configListener, isDisposed, emitters, apiVars, serviceVars>>
        /\ UNCHANGED <<currentMode, fileWatcher, periodicTimer, disposables, timers, timerSeq>>
        /\ UNCHANGED refreshVars

\* An explicit external refresh() request (the refresh command, the panel).
ManualRefresh ==
    /\ refresh
    /\ UNCHANGED <<configListener, isDisposed, emitters, apiVars, serviceVars>>
    /\ UNCHANGED modeVars

\* RefreshManager.initialize() when the settings read as cfg:
\* applyConfiguration(), then the first refresh().
InitializeWith(cfg, env) ==
    /\ isDisposed \/ CanInstall(cfg.refreshMode)
    /\ SetModeState(applyConfiguration(ModeState, isDisposed, cfg, env[1], env[2]))
    /\ refresh
    /\ UNCHANGED <<configListener, isDisposed, emitters, apiVars, serviceVars>>

Initialize ==
    \E mode \in Modes : \E cfg \in ConfigReads(mode) : \E env \in WatchEnvs(mode) :
        cfg.refreshMode = mode /\ InitializeWith(cfg, env)

\* A direct call of the public setMode(mode) when the settings read as cfg.
SetModeWith(mode, cfg, env) ==
    /\ isDisposed \/ CanInstall(mode)
    /\ SetModeState(setMode(ModeState, isDisposed, mode, cfg, env[1], env[2]))
    /\ UNCHANGED <<configListener, isDisposed, emitters, apiVars, serviceVars>>
    /\ UNCHANGED refreshVars

\* setMode() does not read the refreshMode setting; one value stands for it.
SetMode ==
    \E mode \in Modes : \E cfg \in ConfigReads(mode) : \E env \in WatchEnvs(mode) :
        cfg.refreshMode = "manual" /\ SetModeWith(mode, cfg, env)

\* A setting changes; the onDidChangeConfiguration listener, while it is
\* registered, runs applyConfiguration() on the settings as they now read.
ConfigChangeWith(cfg, env) ==
    /\ configListener
    /\ isDisposed \/ CanInstall(cfg.refreshMode)
    /\ SetModeState(applyConfiguration(ModeState, isDisposed, cfg, env[1], env[2]))
    /\ UNCHANGED <<configListener, isDisposed, emitters, apiVars, serviceVars>>
    /\ UNCHANGED refreshVars

ConfigChange ==
    \E mode \in Modes : \E cfg \in ConfigReads(mode) : \E env \in WatchEnvs(mode) :
        cfg.refreshMode = mode /\ ConfigChangeWith(cfg, env)

\* Disposable.dispose() of every entry of `disposables`, applied to the watchers.
RECURSIVE disposeAll(_, _)
disposeAll(ds, ws) ==
    IF ds = <<>> THEN ws
    ELSE LET d == Head(ds)
         IN disposeAll(Tail(ds),
                IF d.kind = "fileChanged" THEN [ws EXCEPT ![d.w].listener = FALSE] ELSE ws)

\* A dispose() that forgets the 'snapshot updated' emitter.
disposeEmitters_KeepUpdated(e) == [e EXCEPT !.refreshStarted = FALSE]

\* RefreshManager.dispose(): both emitters are disposed of; a disposed emitter
\* has no listeners and delivers nothing when fired.
disposeEmitters(e) == [metricsUpdated |-> FALSE, refreshStarted |-> FALSE]

\* RefreshManager.dispose()
Dispose ==
    /\ isDisposed' = TRUE
    /\ LET m == stopCurrentMode(ModeState)
       IN SetModeState([m EXCEPT !.watchers = disposeAll(m.disposables, @),
                                 !.disposables = <<>>])
    /\ emitters' = disposeEmitters(emitters)
    /\ UNCHANGED <<apiVars, serviceVars>>
    /\ configListener' = IF \E k \in 1..Len(disposables) : disposables[k].kind = "config"
                         THEN FALSE ELSE configListener
    /\ UNCHANGED refreshVars

\* ---------------------------------------------------------- utils/retry.ts

\* A number that is not an integer in general (backoffMultiplier, the value
\* of Math.random()), as a fraction.
Fraction(n, d) == [num |-> n, den |-> d]

DEFAULT_OPTIONS ==
    [maxAttempts |-> 3, initialDelayMs |-> 1000, maxDelayMs |-> 10000,
     backoffMultiplier |-> Fraction(2, 1), jitter |-> TRUE, isRetryable |-> "all"]

\* Math.pow(b, e) for a natural exponent.
RECURSIVE Pow(_, _)
Pow(b, e) == IF e = 0 THEN 1 ELSE b * Pow(b, e - 1)

\* Values Math.random() can return: it is at least 0 and below 1.
RandomChoices == {Fraction(0, 1), Fraction(1, 2), Fraction(99, 100)}

\* A delay that is never capped.
calculateDelay_NoCap(attempt, initialDelayMs, maxDelayMs, backoffMultiplier, jitter, random) ==
    LET n == initialDelayMs * Pow(backoffMultiplier.num, attempt)
        d == Pow(backoffMultiplier.den, attempt)
    IN IF jitter
       THEN (n * (2 * random.den + random.num)) \div (d * 2 * random.den)
       ELSE n \div d

\* calculateDelay; `random` is what Math.random() returns when jitter is on.
\* The delay before the cap is n/d, after the cap cn/cd; Math.floor at the end.
calculateDelay(attempt, initialDelayMs, maxDelayMs, backoffMultiplier, jitter, random) ==
    LET n  == initialDelayMs * Pow(backoffMultiplier.num, attempt)
        d  == Pow(backoffMultiplier.den, attempt)
        cn == IF n <= maxDelayMs * d THEN n ELSE maxDelayMs
        cd == IF n <= maxDelayMs * d THEN d ELSE 1
    IN IF jitter
       THEN (cn * (2 * random.den + random.num)) \div (cd * 2 * random.den)
       ELSE cn \div cd

\* Values that are thrown or returned: an error has a class and a message, a
\* returned value has class "value"; id tells the values of different calls
\* apart.
NoError == [class |-> "undefined", message |-> "", id |-> 0]

\* Messages of the model that contain, in lower case, one of 'timeout',
\* 'econnreset', 'econnrefused', 'enotfound', 'network', 'socket'.
NetworkMessages ==
    {"Request timeout", "Network error: socket hang up", "getaddrinfo ENOTFOUND"}

\* isNetworkError(error)
isNetworkError(error) ==
    error.class \in {"Error", "RetryableAPIError"} /\ error.message \in NetworkMessages

\* A status test that also retries a 404.
isRetryableHttpStatus_With404(statusCode) ==
    statusCode \in {404, 408, 429, 500, 502, 503, 504}

\* isRetryableHttpStatus(statusCode)
isRetryableHttpStatus(statusCode) == statusCode \in {408, 429, 500, 502, 503, 504}

\* opts.isRetryable(error) for the predicates the callers pass: the default
\* (every error), a predicate that accepts the errors of class "Transient",
\* and the one fetchQuota() passes.
isRetryable(opts, error) ==
    CASE opts.isRetryable = "all" -> TRUE
      [] opts.isRetryable = "transient" -> error.class = "Transient"
      [] opts.isRetryable = "fetchQuota" ->
            error.class = "RetryableAPIError" \/ isNetworkError(error)

\* No withRetry() call yet.
RetryIdle ==
    [pc |-> "idle", opts |-> DEFAULT_OPTIONS, attempt |-> 0, lastError |-> NoError,
     calls |-> 0, outcomes |-> <<>>, waits |-> <<>>, result |-> NoError]

\* `return await fn()`: the operation is invoked and awaited.
invoke(r) == [r EXCEPT !.pc = "call", !.calls = @ + 1]

\* A loop that runs the operation once more than maxAttempts allows.
loopTest_OneMore(r) ==
    IF r.attempt <= r.opts.maxAttempts
    THEN invoke(r)
    ELSE [r EXCEPT !.pc = "thrown", !.result = r.lastError]

\* The loop test `attempt < opts.maxAttempts`, and `throw lastError` after
\* the loop.
loopTest(r) ==
    IF r.attempt < r.opts.maxAttempts
    THEN invoke(r)
    ELSE [r EXCEPT !.pc = "thrown", !.result = r.lastError]

\* withRetry(fn, options) up to its first await.
withRetry(options) == loopTest([RetryIdle EXCEPT !.opts = options])

\* The awaited fn() resolved: withRetry returns its value.
fnResolved(r, value) ==
    [r EXCEPT !.pc = "returned", !.result = value, !.outcomes = Append(@, value)]

\* A catch block that retries whatever the error is.
fnRejected_RetryAll(r, error, random) ==
    LET r1 == [r EXCEPT !.lastError = error, !.outcomes = Append(@, error)]
    IN IF r.attempt < r.opts.maxAttempts - 1
       THEN [r1 EXCEPT !.pc = "sleep",
                       !.waits = Append(@, calculateDelay(r.attempt, r.opts.initialDelayMs,
                                               r.opts.maxDelayMs, r.opts.backoffMultiplier,
                                               r.opts.jitter, random))]
       ELSE loopTest([r1 EXCEPT !.attempt = @ + 1])

\* The awaited fn() rejected: the catch block, up to the sleep it awaits or to
\* the end of withRetry.
fnRejected(r, error, random) ==
    LET r1 == [r EXCEPT !.lastError = error, !.outcomes = Append(@, error)]
    IN IF ~isRetryable(r.opts, error)
       THEN [r1 EXCEPT !.pc = "thrown", !.result = error]
       ELSE IF r.attempt < r.opts.maxAttempts - 1
       THEN [r1 EXCEPT !.pc = "sleep",
                       !.waits = Append(@, calculateDelay(r.attempt, r.opts.initialDelayMs,
                                               r.opts.maxDelayMs, r.opts.backoffMultiplier,
                                               r.opts.jitter, random))]
       ELSE loopTest([r1 EXCEPT !.attempt = @ + 1])

\* sleep(delay) is over: attempt++ and the loop test.
sleepDone(r) == loopTest([r EXCEPT !.attempt = @ + 1])

\* The options a caller can pass.  backoffMultiplier: 1/2, 1, 3/2 and 2.
OptionChoices ==
    [maxAttempts : 1..MaxAttemptsOption,
     initialDelayMs : {1, 1000},
     maxDelayMs : {2, 5000},
     backoffMultiplier : {Fraction(1, 2), Fraction(1, 1), Fraction(3, 2), Fraction(2, 1)},
     jitter : BOOLEAN,
     isRetryable : {"all", "transient"}]

\* A caller runs an operation under withRetry.
RetryCall ==
    /\ retry.pc = "idle"
    /\ api.pc = "idle"
    /\ \E options \in OptionChoices : retry' = withRetry(options)
    /\ UNCHANGED <<managerVars, api, serviceVars>>

\* The operation succeeds.
FnResolves ==
    /\ retry.pc = "call"
    /\ api.pc = "idle"
    /\ retry' = fnResolved(retry, [class |-> "value", message |-> "", id |-> retry.calls])
    /\ UNCHANGED <<managerVars, api, serviceVars>>

\* The operation fails, with an error its caller may or may not accept.
FnRejects ==
    /\ retry.pc = "call"
    /\ api.pc = "idle"
    /\ \E class \in {"Transient", "Fatal"} : \E random \in RandomChoices :
          retry' = fnRejected(retry, [class |-> class, message |-> "", id |-> retry.calls],
                              random)
    /\ UNCHANGED <<managerVars, api, serviceVars>>

\* The sleep between two attempts is over.
SleepDone ==
    /\ retry.pc = "sleep"
    /\ retry' = sleepDone(retry)
    /\ UNCHANGED <<managerVars, api, serviceVars>>

\* ------------------------------------------- services/ClaudeAPIService.ts

\* Date.now() during the call, in milliseconds.
NowMs == 10000000

\* What getCredentials() can yield: null (expiresAt = -1 stands for it), or
\* credentials that expired a second ago, that expire just inside, exactly at
\* and just outside the five-minute buffer, and that expire in an hour.
NoCredentials == -1
CredentialChoices ==
    {NoCredentials, NowMs - 1000, NowMs + 5 * 60 * 1000 - 1, NowMs + 5 * 60 * 1000,
     NowMs + 5 * 60 * 1000 + 1, NowMs + 60 * 60 * 1000}

\* The credentials file .credentials.json on disk.  state: whether it is
\* missing, is not JSON ("corrupt"), is JSON without a claudeAiOauth entry, or
\* has one; accessToken and expiresAt are that entry, other stands for every
\* other field of the file, layout for how the JSON text is laid out, and
\* writable for whether writeFile() on it succeeds.
MissingFile ==
    [state |-> "missing", accessToken |-> "none", expiresAt |-> NoCredentials,
     other |-> "none", layout |-> "none", writable |-> TRUE]
FileChoices ==
    {MissingFile,
     [MissingFile EXCEPT !.state = "corrupt", !.layout = "pretty"],
     [MissingFile EXCEPT !.state = "noOauth", !.other = "mcpServers", !.layout = "pretty"]}
    \cup {[state |-> "ok", accessToken |-> "loaded", expiresAt |-> e,
           other |-> "mcpServers", layout |-> l, writable |-> wr] :
             e \in CredentialChoices \ {NoCredentials},
             l \in {"pretty", "compact"}, wr \in BOOLEAN}

\* ClaudeAPIService.getCredentials, as the expiry of the entry it returns.
getCredentials(file) ==
    IF file.state = "missing" THEN NoCredentials
    ELSE IF file.state = "corrupt" THEN NoCredentials
    ELSE IF file.state = "noOauth" THEN NoCredentials
    ELSE file.expiresAt

\* The credentials refreshToken() builds from a 200 response.
NewCreds == [accessToken |-> "refreshed", expiresAt |-> NowMs + 60 * 60 * 1000]

\* A save that writes a file holding the OAuth entry only.
saveCredentials_OnlyOauth(file, creds) ==
    IF file.state \in {"missing", "corrupt"} \/ ~file.writable THEN file
    ELSE [file EXCEPT !.state = "ok", !.accessToken = creds.accessToken,
                      !.expiresAt = creds.expiresAt, !.other = "none",
                      !.layout = "compact"]

\* ClaudeAPIService.saveCredentials: read and parse the file, replace its
\* claudeAiOauth entry, write JSON.stringify of the whole; any error on the
\* way is logged and swallowed, and the file stays as it was.
saveCredentials(file, creds) ==
    IF file.state \in {"missing", "corrupt"} \/ ~file.writable THEN file
    ELSE [file EXCEPT !.state = "ok", !.accessToken = creds.accessToken,
                      !.expiresAt = creds.expiresAt, !.layout = "compact"]

\* ClaudeAPIService.refreshToken: one POST to the token endpoint.  A 200 with
\* a JSON body gives new credentials, saved before they are returned; every
\* other end of the request (another status, a body that is not JSON, a
\* network error, the 10 s timeout) gives null and leaves the file alone.
RefreshEnds == {"200", "200 not JSON", "401", "error", "timeout"}
refreshToken(file, ends) ==
    IF ends = "200"
    THEN [creds |-> NewCreds.expiresAt, file |-> saveCredentials(file, NewCreds)]
    ELSE [creds |-> NoCredentials, file |-> file]

\* An expiry test without the five-minute buffer.
isTokenExpired_NoBuffer(expiresAt, now) == now > expiresAt

\* ClaudeAPIService.isTokenExpired
isTokenExpired(expiresAt, now) == now > expiresAt - 5 * 60 * 1000

\* A QuotaResult.
Success(data) == [class |-> "value", success |-> TRUE, data |-> data, error |-> "none"]
Failure(error) == [class |-> "value", success |-> FALSE, data |-> "none", error |-> error]
RetryableAPIError(message) == [class |-> "RetryableAPIError", message |-> message]

\* How one request to the usage endpoint can end: a response with a status
\* and a body (the body matters for a 200 only), a network-layer fault, or
\* the 10 s request timeout.
Responses ==
    {[kind |-> "response", status |-> 200, body |-> b] : b \in {"valid", "null", "malformed"}}
    \cup {[kind |-> "response", status |-> st, body |-> "valid"] :
             st \in {401, 404, 408, 429, 500, 502, 503, 504}}
    \cup {[kind |-> "error", status |-> 0, body |-> "valid"],
          [kind |-> "timeout", status |-> 0, body |-> "valid"]}

\* A response handler for which a 401 is a retryable failure.
processUsageApiResponse_Retry401(statusCode, data) ==
    IF statusCode = 200
    THEN IF data = "malformed"
         THEN [thrown |-> TRUE, value |-> [class |-> "SyntaxError", message |-> "Unexpected token"]]
         ELSE [thrown |-> FALSE,
               value |-> Success(IF data = "null" THEN "none" ELSE "quotaData")]
    ELSE IF statusCode = 401 \/ isRetryableHttpStatus(statusCode)
    THEN [thrown |-> TRUE,
          value |-> RetryableAPIError(IF statusCode = 429
                                      THEN "Rate limited. Please try again later."
                                      ELSE "Server error: " \o ToString(statusCode))]
    ELSE [thrown |-> FALSE, value |-> Failure("API error: " \o ToString(statusCode))]

\* ClaudeAPIService.processUsageApiResponse: a QuotaResult, or a thrown value
\* (the SyntaxError of JSON.parse, a RetryableAPIError).
processUsageApiResponse(statusCode, data) ==
    IF statusCode = 200
    THEN IF data = "malformed"
         THEN [thrown |-> TRUE, value |-> [class |-> "SyntaxError", message |-> "Unexpected token"]]
         ELSE [thrown |-> FALSE,
               value |-> Success(IF data = "null" THEN "none" ELSE "quotaData")]
    ELSE IF statusCode = 401
    THEN [thrown |-> FALSE,
          value |-> Failure("Authentication failed. Please log in to Claude Code again.")]
    ELSE IF isRetryableHttpStatus(statusCode)
    THEN [thrown |-> TRUE,
          value |-> RetryableAPIError(IF statusCode = 429
                                      THEN "Rate limited. Please try again later."
                                      ELSE "Server error: " \o ToString(statusCode))]
    ELSE [thrown |-> FALSE, value |-> Failure("API error: " \o ToString(statusCode))]

\* ClaudeAPIService.handleUsageApiEnd: how the request promise settles once
\* the response has ended.
handleUsageApiEnd(statusCode, data) ==
    LET result == processUsageApiResponse(statusCode, data)
    IN IF ~result.thrown
       THEN [rejected |-> FALSE, value |-> result.value]
       ELSE IF result.value.class = "RetryableAPIError"
       THEN [rejected |-> TRUE, value |-> result.value]
       ELSE [rejected |-> FALSE, value |-> Failure("Failed to parse quota data")]

\* A request whose timeout resolves with a failure instead of rejecting.
callUsageAPIWithRetry_TimeoutIsFinal(response) ==
    CASE response.kind = "response" -> handleUsageApiEnd(response.status, response.body)
      [] response.kind = "timeout" ->
            [rejected |-> FALSE, value |-> Failure("Request timeout")]
      [] response.kind = "error" ->
            [rejected |-> TRUE, value |-> RetryableAPIError("Network error: socket hang up")]

\* ClaudeAPIService.callUsageAPIWithRetry: how the promise of one request
\* settles.
callUsageAPIWithRetry(response) ==
    CASE response.kind = "response" -> handleUsageApiEnd(response.status, response.body)
      [] response.kind = "timeout" ->
            [rejected |-> TRUE, value |-> RetryableAPIError("Request timeout")]
      [] response.kind = "error" ->
            [rejected |-> TRUE, value |-> RetryableAPIError("Network error: socket hang up")]

\* The options fetchQuota() passes to withRetry; the others are the defaults.
FetchQuotaOptions ==
    [DEFAULT_OPTIONS EXCEPT !.maxAttempts = 3, !.initialDelayMs = 1000,
                            !.maxDelayMs = 5000, !.isRetryable = "fetchQuota"]

\* No fetchQuota() call yet.  tokenRefreshes counts the refreshToken() calls,
\* responses lists how the usage requests ended; a call adds file, the
\* credentials file on disk, fileAtCall, what it was when fetchQuota() was
\* called, refreshed, what refreshToken() resolved with, accessToken, the
\* token captured for the usage requests, and sent, the token each request
\* carried.
ApiIdle ==
    [pc |-> "idle", expiresAt |-> NoCredentials, tokenRefreshes |-> 0,
     responses |-> <<>>, result |-> Failure("none")]

\* The invocation once fetchQuota() is called with `file` on disk.
ApiCalled(a, file) ==
    [pc |-> a.pc, expiresAt |-> a.expiresAt, tokenRefreshes |-> a.tokenRefreshes,
     responses |-> a.responses, result |-> a.result,
     file |-> file, fileAtCall |-> file, refreshed |-> NoCredentials,
     accessToken |-> "none", sent |-> <<>>]

\* fetchQuota() returns.
return(a, result) == [a EXCEPT !.pc = "done", !.result = result]

\* fetchQuota() after the awaited withRetry() has settled or suspended again:
\* its value is returned, its error is turned into a failure result.
afterWithRetry(a, r) ==
    CASE r.pc = "returned" -> return(a, r.result)
      [] r.pc = "thrown" ->
            return(a, Failure(IF r.result.class = "undefined"
                              THEN "Unknown error occurred" ELSE r.result.message))
      [] OTHER -> a

\* fetchQuota() past getCredentials(), for the expiry of what it returned:
\* fail without credentials, refresh an expired token, else call the API.
afterGetCredentials(a, expiresAt) ==
    LET b == [a EXCEPT !.expiresAt = expiresAt]
    IN IF expiresAt = NoCredentials
       THEN return(b, Failure(
                "No OAuth credentials found. Please log in to Claude Code first."))
       ELSE IF isTokenExpired(expiresAt, NowMs)
       THEN [b EXCEPT !.pc = "refreshing", !.tokenRefreshes = @ + 1]
       ELSE [b EXCEPT !.pc = "usage"]

\* A fetchQuota() that goes on with the loaded token when the refresh fails.
afterRefreshToken_UseLoaded(a, newCreds) ==
    [a EXCEPT !.pc = "usage", !.refreshed = newCreds]

\* fetchQuota() past the awaited refreshToken(): null is a failure result,
\* new credentials replace the loaded ones and are not tested for expiry
\* again (api.expiresAt stays the expiry of the loaded ones).
afterRefreshToken(a, newCreds) ==
    IF newCreds = NoCredentials
    THEN return([a EXCEPT !.refreshed = newCreds], Failure(
             "Failed to refresh OAuth token. Please log in to Claude Code again."))
    ELSE [a EXCEPT !.pc = "usage", !.refreshed = newCreds]

\* A token taken from the file as it is on disk when the usage request starts.
credsAccessToken_FromDisk(a) == a.file.accessToken

\* `creds.accessToken` at the call of withRetry: creds is what getCredentials()
\* returned, replaced by what refreshToken() resolved with if it was called.
credsAccessToken(a) ==
    IF a.refreshed # NoCredentials THEN NewCreds.accessToken
    ELSE a.fileAtCall.accessToken

\* `const accessToken = creds.accessToken`, once the call goes on to withRetry.
captureAccessToken(a) ==
    IF a.pc = "usage" THEN [a EXCEPT !.accessToken = credsAccessToken(a)] ELSE a

\* fetchQuota() up to its first await past getCredentials().  The file is
\* what another program (the Claude Code CLI) left on disk before the call.
fetchQuota ==
    /\ api.pc = "idle"
    /\ retry.pc = "idle"
    /\ \E file \in FileChoices :
          /\ api' = captureAccessToken(
                        afterGetCredentials(ApiCalled(api, file), getCredentials(file)))
          /\ retry' = IF api'.pc = "usage" THEN withRetry(FetchQuotaOptions) ELSE retry
    /\ UNCHANGED <<managerVars, serviceVars>>

\* refreshToken() settles.
RefreshTokenDone ==
    /\ api.pc = "refreshing"
    /\ \E ends \in RefreshEnds :
          LET r == refreshToken(api.file, ends)
          IN /\ api' = captureAccessToken(
                           afterRefreshToken([api EXCEPT !.file = r.file], r.creds))
             /\ retry' = IF api'.pc = "usage" THEN withRetry(FetchQuotaOptions) ELSE retry
    /\ UNCHANGED <<managerVars, serviceVars>>

\* One request to the usage endpoint ends; withRetry goes on to its sleep or
\* settles, and then fetchQuota() returns.
UsageRequestDone ==
    /\ api.pc = "usage"
    /\ retry.pc = "call"
    /\ \E response \in Responses : \E random \in RandomChoices :
          LET settled == callUsageAPIWithRetry(response)
              r == IF settled.rejected
                   THEN fnRejected(retry, settled.value, random)
                   ELSE fnResolved(retry, settled.value)
          IN /\ retry' = r
             /\ api' = afterWithRetry([api EXCEPT !.responses = Append(@, response),
                                                  !.sent = Append(@, api.accessToken)], r)
    /\ UNCHANGED <<managerVars, serviceVars>>

\* ------------------------------------------------ FileWatcher under a clock

\* FileWatcher.debounceMs
debounceMs == 500

\* Time that can pass between two steps, in milliseconds.
Gaps == {100, 400, 500}

\* One FileWatcher right after its constructor, at time 0.  w holds its fields
\* and the runtime's handles, deadline is when the armed timeout is due,
\* eventTimes lists when handleFileChange() ran, ignored counts the events for
\* other file names, signals lists the firings of _onFileChanged (when, and
\* after how many events); pending counts the events since the last firing
\* or stop, sinceStop those since the last stop, startedSinceStop tells
\* whether start() opened a handle since the last stop.
WatchIdle ==
    [pc |-> "constructed",
     w |-> NewFileWatcher, now |-> 0, deadline |-> 0, eventTimes |-> <<>>,
     ignored |-> 0, signals |-> <<>>, pending |-> 0, sinceStop |-> 0,
     startedSinceStop |-> FALSE]

\* No FileWatcher constructed yet.
NoWatcher == [pc |-> "none"]

\* A handleFileChange() that leaves a running debounce window as it is.
handleFileChangeAt_KeepWindow(t) ==
    [t EXCEPT !.w = handleFileChange(t.w),
              !.deadline = IF t.w.timeoutArmed THEN @ ELSE t.now + debounceMs]

\* handleFileChange() at time t.now: clearTimeout, then setTimeout(debounceMs).
handleFileChangeAt(t) ==
    [t EXCEPT !.w = handleFileChange(t.w), !.deadline = t.now + debounceMs]

\* The fields a stop()/dispose() result w2 leaves in the timed record.
Stopped(t, w2) ==
    [t EXCEPT !.w = w2, !.deadline = IF w2.timeoutArmed THEN @ ELSE 0,
              !.pending = 0, !.sinceStop = 0, !.startedSinceStop = FALSE]

\* new FileWatcher(filePath)
WatchNew ==
    /\ watch.pc = "none"
    /\ watch' = WatchIdle
    /\ UNCHANGED <<managerVars, apiVars, dataService, quotaCalls, reentrant>>

\* FileWatcher.start()
WatchStart ==
    /\ watch.pc = "constructed"
    /\ \E dirExists \in BOOLEAN : \E watchOk \in BOOLEAN :
          LET w2 == FileWatcher_start(watch.w, dirExists, watchOk)
          IN watch' = [watch EXCEPT !.w = w2,
                                    !.startedSinceStop = @ \/ (w2.handleOpen /\ ~watch.w.handleOpen)]
    /\ UNCHANGED <<managerVars, apiVars, dataService, quotaCalls, reentrant>>

\* FileWatcher.stop()
WatchStop ==
    /\ watch.pc = "constructed"
    /\ watch' = Stopped(watch, FileWatcher_stop(watch.w))
    /\ UNCHANGED <<managerVars, apiVars, dataService, quotaCalls, reentrant>>

\* FileWatcher.dispose()
WatchDispose ==
    /\ watch.pc = "constructed"
    /\ watch' = Stopped(watch, FileWatcher_dispose(watch.w))
    /\ UNCHANGED <<managerVars, apiVars, dataService, quotaCalls, reentrant>>

\* The fs.watch callback: an event for the watched file name runs
\* handleFileChange(), an event for another name does nothing.
WatchEvent ==
    /\ watch.pc = "constructed"
    /\ watch.w.handleOpen
    /\ Len(watch.eventTimes) + watch.ignored < MaxEvents
    /\ \E sameFile \in BOOLEAN :
          watch' = IF sameFile
                   THEN [handleFileChangeAt(watch) EXCEPT
                            !.eventTimes = Append(@, watch.now),
                            !.pending = @ + 1, !.sinceStop = @ + 1]
                   ELSE [watch EXCEPT !.ignored = @ + 1]
    /\ UNCHANGED <<managerVars, apiVars, dataService, quotaCalls, reentrant>>

\* The watcher's 'error' listener: stop().
WatchError ==
    /\ watch.pc = "constructed"
    /\ watch.w.handleOpen
    /\ watch' = Stopped(watch, FileWatcher_stop(watch.w))
    /\ UNCHANGED <<managerVars, apiVars, dataService, quotaCalls, reentrant>>

\* The debounce timeout is due: fire _onFileChanged, forget the timeout.
WatchTimeout ==
    /\ watch.pc = "constructed"
    /\ watch.w.timeoutArmed
    /\ watch.now >= watch.deadline
    /\ watch' = [watch EXCEPT
                   !.w = [@ EXCEPT !.debounceTimer = FALSE, !.timeoutArmed = FALSE],
                   !.deadline = 0,
                   !.pending = 0,
                   !.signals = IF watch.w.emitter
                               THEN Append(@, [at |-> watch.now,
                                               events |-> Len(watch.eventTimes)])
                               ELSE @]
    /\ UNCHANGED <<managerVars, apiVars, dataService, quotaCalls, reentrant>>

\* Time passes; a timeout that is due runs before time passes it.
WatchAdvance ==
    /\ watch.pc = "constructed"
    /\ \E d \in Gaps :
          /\ watch.now + d <= MaxClock
          /\ watch.w.timeoutArmed => watch.now + d <= watch.deadline
          /\ watch' = [watch EXCEPT !.now = @ + d]
    /\ UNCHANGED <<managerVars, apiVars, dataService, quotaCalls, reentrant>>

\* ------------------------------------ services/FileWatcher.ts: ClaudeDataService

\* The calendar day of `new Date()` in UTC, as a day number; the local calendar
\* day of the same instant is the day before, the same day, or the day after.
UtcToday == 20
ClockChoices ==
    {[utcDay |-> UtcToday, localDay |-> l] : l \in {UtcToday - 1, UtcToday, UtcToday + 1}}

\* One entry of stats.dailyActivity and one of stats.dailyModelTokens (tokens
\* is the sum of its tokensByModel values) for the day d.
activityEntry(d) ==
    [date |-> d, messageCount |-> 42, sessionCount |-> 2, toolCallCount |-> 3]
tokenEntry(d) == [date |-> d, tokens |-> 100]

\* The daily series with one entry for each day from first to last.
ActivityDays(first, last) ==
    [i \in 1..(last - first + 1) |-> activityEntry(first + i - 1)]
TokenDays(first, last) ==
    [i \in 1..(last - first + 1) |-> tokenEntry(first + i - 1)]

\* The day ranges of the series in the cache: none, today only, the last 7, 8
\* and 10 days, each ending yesterday, today or tomorrow (UTC).
SeriesRanges ==
    {<<f, l>> : f \in {UtcToday - 9, UtcToday - 7, UtcToday - 6, UtcToday},
                l \in {UtcToday - 1, UtcToday, UtcToday + 1}}

\* What JSON.parse of stats-cache.json gives: a cache of the expected shape,
\* or one whose modelUsage has a null entry; NullStats is `null`.
StatsCache(shape, activity, tokens) ==
    [shape |-> shape, totalSessions |-> 5, totalMessages |-> 9,
     dailyActivity |-> activity, dailyModelTokens |-> tokens]
NullStats == StatsCache("null", <<>>, <<>>)
StatsCaches ==
    {StatsCache(sh, ActivityDays(a[1], a[2]), TokenDays(t[1], t[2])) :
        sh \in {"ok", "nullModelUsage"}, a \in SeriesRanges, t \in SeriesRanges}

\* The stats cache file: absent, unreadable, not JSON, or JSON.
CacheFiles ==
    {[state |-> st, stats |-> NullStats] : st \in {"absent", "unreadable", "corrupt"}}
    \cup {[state |-> "json", stats |-> c] : c \in StatsCaches}

\* Values the access token in the credentials file can have.
TokenValues == {"tokenA", "tokenB"}

\* The credentials file as the data service reads it.
CredentialFiles ==
    {[state |-> st, subscriptionType |-> "none", accessToken |-> "none"] :
        st \in {"absent", "corrupt", "noOauth"}}
    \cup {[state |-> "ok", subscriptionType |-> sub, accessToken |-> tok] :
             sub \in {"pro", "none"}, tok \in TokenValues}

\* Everything a loadMetrics() call reads.
DataEnvs ==
    [dirExists : BOOLEAN, cache : CacheFiles, creds : CredentialFiles, clock : ClockChoices]

\* createEmptyMetrics(), with the fields the data service fills.
emptyUsageMetrics ==
    [subscriptionType |-> "unknown",
     todayTokens |-> 0, todayMessages |-> 0, todaySessions |-> 0, todayToolCalls |-> 0,
     totalSessions |-> 0, totalMessages |-> 0,
     dailyActivity |-> <<>>, dailyModelTokens |-> <<>>,
     dataAvailable |-> FALSE, error |-> "none"]

\* ClaudeDataService.loadStatsCache: null for an absent file and for a file
\* that cannot be read or parsed (the error is logged).
loadStatsCache(cache) ==
    IF cache.state = "absent" THEN NullStats
    ELSE IF cache.state \in {"unreadable", "corrupt"} THEN NullStats
    ELSE cache.stats

\* A loadCredentials whose result carries the access token into the snapshot.
loadCredentials_WithToken(creds) ==
    IF creds.state = "ok" THEN creds.accessToken ELSE "none"

\* ClaudeDataService.loadCredentials, as the subscriptionType of the file's
\* claudeAiOauth entry ("none" when there is no such entry or no such field).
loadCredentials(creds) ==
    IF creds.state = "ok" THEN creds.subscriptionType ELSE "none"

\* ClaudeDataService.getTodayDateString: the date part of toISOString(),
\* which is the UTC calendar day.
getTodayDateString(clock) == clock.utcDay

\* Array.prototype.find by date: the index of the first entry dated d, or 0.
FindDate(series, d) ==
    IF \E i \in 1..Len(series) : series[i].date = d
    THEN CHOOSE i \in 1..Len(series) :
            /\ series[i].date = d
            /\ \A j \in 1..(i - 1) : series[j].date # d
    ELSE 0

\* ClaudeDataService.populateFromStatsCache: copies the historical data, sums
\* the per-model counters (a TypeError on a null entry), then fills today's
\* counters.
populateFromStatsCache(metrics, stats, clock) ==
    LET copied == [metrics EXCEPT !.totalSessions = stats.totalSessions,
                                  !.totalMessages = stats.totalMessages,
                                  !.dailyActivity = stats.dailyActivity,
                                  !.dailyModelTokens = stats.dailyModelTokens]
        today == getTodayDateString(clock)
        a == FindDate(stats.dailyActivity, today)
        t == FindDate(stats.dailyModelTokens, today)
    IN IF stats.shape = "nullModelUsage"
       THEN [threw |-> TRUE, metrics |-> copied]
       ELSE [threw |-> FALSE,
             metrics |-> [copied EXCEPT
                 !.todayMessages = IF a = 0 THEN @ ELSE stats.dailyActivity[a].messageCount,
                 !.todaySessions = IF a = 0 THEN @ ELSE stats.dailyActivity[a].sessionCount,
                 !.todayToolCalls = IF a = 0 THEN @ ELSE stats.dailyActivity[a].toolCallCount,
                 !.todayTokens = IF t = 0 THEN @ ELSE stats.dailyModelTokens[t].tokens]]

\* A loadMetrics() without its catch block.
ClaudeDataService_loadMetrics_NoCatch(env) ==
    LET metrics == emptyUsageMetrics
        statsCache == loadStatsCache(env.cache)
        p == IF statsCache = NullStats
             THEN [threw |-> FALSE, metrics |-> metrics]
             ELSE populateFromStatsCache(metrics, statsCache, env.clock)
        sub == loadCredentials(env.creds)
    IN IF ~env.dirExists
       THEN [thrown |-> FALSE,
             metrics |-> [metrics EXCEPT !.error =
                 "Claude data directory not found. Is Claude Code installed?"]]
       ELSE IF p.threw
       THEN [thrown |-> TRUE, metrics |-> p.metrics]
       ELSE [thrown |-> FALSE,
             metrics |-> [p.metrics EXCEPT
                 !.subscriptionType = IF env.creds.state = "ok"
                                      THEN (IF sub = "none" THEN "unknown" ELSE sub)
                                      ELSE @,
                 !.dataAvailable = TRUE]]

\* ClaudeDataService.loadMetrics
ClaudeDataService_loadMetrics(env) ==
    LET metrics == emptyUsageMetrics
        statsCache == loadStatsCache(env.cache)
        p == IF statsCache = NullStats
             THEN [threw |-> FALSE, metrics |-> metrics]
             ELSE populateFromStatsCache(metrics, statsCache, env.clock)
        sub == loadCredentials(env.creds)
    IN IF ~env.dirExists
       THEN [thrown |-> FALSE,
             metrics |-> [metrics EXCEPT !.error =
                 "Claude data directory not found. Is Claude Code installed?"]]
       ELSE IF p.threw
       THEN [thrown |-> FALSE,
             metrics |-> [p.metrics EXCEPT !.error = "Error loading metrics: TypeError"]]
       ELSE [thrown |-> FALSE,
             metrics |-> [p.metrics EXCEPT
                 !.subscriptionType = IF env.creds.state = "ok"
                                      THEN (IF sub = "none" THEN "unknown" ELSE sub)
                                      ELSE @,
                 !.dataAvailable = TRUE]]

\* The sum of a sequence of numbers.
RECURSIVE SumSeq(_)
SumSeq(numbers) ==
    IF numbers = <<>> THEN 0 ELSE Head(numbers) + SumSeq(Tail(numbers))

\* The sum of entry[field] over the entries of a series dated from `from` on,
\* as the loop `if (entry.date >= weekAgoStr) sum += ...` computes it.
SumSince(series, from, field) ==
    SumSeq([i \in 1..Len(series) |->
               IF series[i].date >= from THEN series[i][field] ELSE 0])

\* `weekAgo.setDate(weekAgo.getDate() - 7); weekAgo.toISOString().split('T')[0]`:
\* the UTC calendar day of the instant seven days before now.
weekAgoStr(clock) == clock.utcDay - 7

\* ClaudeDataService.getWeeklyStats
getWeeklyStats(metrics, clock) ==
    [messages |-> SumSince(metrics.dailyActivity, weekAgoStr(clock), "messageCount"),
     sessions |-> SumSince(metrics.dailyActivity, weekAgoStr(clock), "sessionCount"),
     tokens |-> SumSince(metrics.dailyModelTokens, weekAgoStr(clock), "tokens")]

\* StatusBarManager.getWeeklyMessages
getWeeklyMessages(metrics, clock) ==
    SumSince(metrics.dailyActivity, weekAgoStr(clock), "messageCount")

\* No loadMetrics() call yet: nothing read, nothing returned.
DataIdle == [pc |-> "idle"]

\* loadMetrics() is called and settles, for what is on disk and the time.
LoadMetricsCall ==
    /\ dataService.pc = "idle"
    /\ \E env \in DataEnvs :
          LET r == ClaudeDataService_loadMetrics(env)
          IN dataService' = [pc |-> "loaded", env |-> env,
                             thrown |-> r.thrown, metrics |-> r.metrics,
                             weekly |-> [messages |-> 0, sessions |-> 0, tokens |-> 0],
                             weeklyMessages |-> 0]
    /\ UNCHANGED <<managerVars, apiVars, watch, quotaCalls, reentrant>>

\* The views aggregate the loaded snapshot at the same instant.
WeeklyStatsCall ==
    /\ dataService.pc = "loaded"
    /\ ~dataService.thrown
    /\ dataService' = [dataService EXCEPT !.pc = "aggregated",
                            !.weekly = getWeeklyStats(dataService.metrics, dataService.env.clock),
                            !.weeklyMessages = getWeeklyMessages(dataService.metrics, dataService.env.clock)]
    /\ UNCHANGED <<managerVars, apiVars, watch, quotaCalls, reentrant>>

\* ------------------------------- RefreshManager with its ClaudeAPIService

\* The manager calls fetchQuota() of the ClaudeAPIService it constructed, once
\* per cycle, from the cycle's await.  A call is followed here through its own
\* awaits: getCredentials(), the token request, the read and the write of
\* saveCredentials(), and the usage request under withRetry (taken as one
\* step; its attempts are those of the quota fetch on its own).  A cycle at
\* its fetch with no entry in quotaCalls is waiting for getCredentials().

\* A failure QuotaResult as refresh() receives it.
QuotaFailure(message) ==
    [kind |-> "result", success |-> FALSE, data |-> "none", error |-> message]

\* What the call can return from the usage request: fetchQuota() catches what
\* withRetry throws, so it settles with a QuotaResult.
UsageResults == {q \in QuotaOutcomes : q.kind = "result"}

\* The call of cycle `ref` at position pc.
QuotaCall(ref, pc, result) == [ref |-> ref, pc |-> pc, result |-> result]

\* The cycles waiting for the getCredentials() of their fetchQuota() call.
AwaitingCredentials ==
    {c \in inflight : c.pc = "fetch" /\ \A k \in quotaCalls : k.ref # c.metrics.ref}

\* getCredentials() settles: without credentials the call returns a failure,
\* with an expired token it posts the token request, else it goes on to the
\* usage request.
QuotaCredentials ==
    /\ \E c \in AwaitingCredentials : \E file \in FileChoices :
          LET expiresAt == getCredentials(file)
              ref == c.metrics.ref
          IN quotaCalls' = quotaCalls \cup
                {IF expiresAt = NoCredentials
                 THEN QuotaCall(ref, "done", QuotaFailure("No OAuth credentials found"))
                 ELSE IF isTokenExpired(expiresAt, NowMs)
                 THEN QuotaCall(ref, "token", NoOutcome)
                 ELSE QuotaCall(ref, "usage", NoOutcome)}
    /\ UNCHANGED <<managerVars, apiVars, watch, dataService, reentrant>>

\* The token request ends: a 200 with a JSON body starts saveCredentials(),
\* every other end resolves null and the call returns a failure.
QuotaTokenResponse ==
    /\ \E k \in quotaCalls : \E ends \in RefreshEnds :
          /\ k.pc = "token"
          /\ quotaCalls' = (quotaCalls \ {k}) \cup
                {IF ends = "200"
                 THEN QuotaCall(k.ref, "saveRead", NoOutcome)
                 ELSE QuotaCall(k.ref, "done", QuotaFailure("Failed to refresh OAuth token"))}
    /\ UNCHANGED <<managerVars, apiVars, watch, dataService, reentrant>>

\* The readFile() of saveCredentials() settles: the content parses and the
\* write is issued, or the error is swallowed and the call goes on.
QuotaSaveRead ==
    /\ \E k \in quotaCalls : \E parsed \in BOOLEAN :
          /\ k.pc = "saveRead"
          /\ quotaCalls' = (quotaCalls \ {k}) \cup
                {QuotaCall(k.ref, IF parsed THEN "saveWrite" ELSE "usage", NoOutcome)}
    /\ UNCHANGED <<managerVars, apiVars, watch, dataService, reentrant>>

\* The writeFile() of saveCredentials() settles, with or without an error;
\* the token request resolves the new credentials and the usage request starts.
QuotaSaveWrite ==
    /\ \E k \in quotaCalls :
          /\ k.pc = "saveWrite"
          /\ quotaCalls' = (quotaCalls \ {k}) \cup {QuotaCall(k.ref, "usage", NoOutcome)}
    /\ UNCHANGED <<managerVars, apiVars, watch, dataService, reentrant>>

\* withRetry() around the usage request settles.
QuotaUsage ==
    /\ \E k \in quotaCalls : \E q \in UsageResults :
          /\ k.pc = "usage"
          /\ quotaCalls' = (quotaCalls \ {k}) \cup {QuotaCall(k.ref, "done", q)}
    /\ UNCHANGED <<managerVars, apiVars, watch, dataService, reentrant>>

\* fetchQuota() returns to the refresh() that awaits it.
QuotaReturns ==
    /\ \E k \in quotaCalls : \E c \in inflight :
          /\ k.pc = "done"
          /\ c.metrics.ref = k.ref
          /\ FetchSettles(c, k.result)
          /\ quotaCalls' = quotaCalls \ {k}
    /\ UNCHANGED <<apiVars, watch, dataService, reentrant>>

\* ----------------------------- RefreshManager with handlers that call refresh()

\* Subscribers of onRefreshStarted and onMetricsUpdated run inside fire(), in
\* the middle of refresh().  Here a handler may call refresh() itself;
\* `reentrant` keeps where the last such call was made from, which return it
\* took and what it returned, and counts the calls.
NoReentrantCall == [at |-> "none", entry |-> "none", snap |-> NullMetrics, calls |-> 0]

\* A refresh() that fires 'refresh started' before it sets the flag.
flagAtStartedFire_FireFirst(refreshing) == refreshing

\* isRefreshing as a 'refresh started' handler finds it: set just before.
flagAtStartedFire(refreshing) == TRUE

\* A refresh() that clears the flag before it fires 'snapshot updated'.
flagAtUpdatedFire_ClearedFirst(refreshing) == FALSE

\* isRefreshing as a 'snapshot updated' handler finds it: the finally block
\* has not run yet.
flagAtUpdatedFire(refreshing) == refreshing

\* The refresh() call of a handler: `at` is the notification it handles, flag
\* and last are isRefreshing and lastMetrics as they are during fire().  A
\* call that passes both guards would start a cycle of its own.
handlerCall(at, flag, last, ref) ==
    LET entry == refreshEntry(isDisposed, flag)
    IN [at |-> at, entry |-> entry,
        snap |-> IF entry = "run" THEN NullMetrics ELSE cachedOrEmpty(last, ref),
        calls |-> reentrant.calls + 1]

\* refresh() past its guards, with a 'refresh started' handler that calls
\* refresh() or not: the handler runs before loadMetrics() creates the cycle's
\* snapshot, so an empty snapshot it is handed is the older object.
StartCycleWithHandler(calls) ==
    LET called == calls /\ emitters.refreshStarted
        call == handlerCall("started", flagAtStartedFire(isRefreshing), lastMetrics, nextRef)
        allocated == called /\ call.entry # "run" /\ lastMetrics.ref = 0
        ref == IF allocated THEN nextRef + 1 ELSE nextRef
        nested == called /\ call.entry = "run"
    IN /\ ref <= MaxRefs
       /\ isRefreshing' = TRUE
       /\ count' = [count EXCEPT !.startedFired = @ + 1,
                                 !.started = IF emitters.refreshStarted THEN @ + 1 ELSE @,
                                 !.load = IF nested THEN @ + 2 ELSE @ + 1]
       /\ inflight' = inflight \cup
              {[pc |-> "load", metrics |-> createEmptyMetrics(ref), overlap |-> {}]}
       /\ nextRef' = ref + 1
       /\ reentrant' = IF called THEN call ELSE reentrant
       /\ UNCHANGED <<lastMetrics, ret, published>>

\* A refresh() call, from whatever trigger, on a manager whose subscribers
\* call refresh() from their handlers.
RefreshWithHandler ==
    /\ LET entry == refreshEntry(isDisposed, isRefreshing)
       IN IF entry = "run" THEN \E calls \in BOOLEAN : StartCycleWithHandler(calls)
          ELSE ReturnCached(entry) /\ reentrant' = reentrant
    /\ UNCHANGED <<configListener, isDisposed, emitters, apiVars, watch, dataService,
                   quotaCalls>>
    /\ UNCHANGED modeVars

\* fetchQuota() settles, with a 'snapshot updated' handler that calls
\* refresh() or not: lastMetrics has been assigned when the handler runs.
FetchDoneWithHandler ==
    \E c \in inflight : \E q \in QuotaOutcomes : \E calls \in BOOLEAN :
        /\ FetchSettles(c, q)
        /\ LET call == handlerCall("updated", flagAtUpdatedFire(isRefreshing),
                                   lastMetrics', nextRef)
           IN reentrant' = IF calls /\ emitters.metricsUpdated THEN call ELSE reentrant
        /\ UNCHANGED <<apiVars, watch, dataService, quotaCalls>>

\* ------------------------------------------------------- the specification

\* The state right after `new RefreshManager(dataService)`.
Init ==
    /\ configListener = TRUE
    /\ currentMode = "periodic"
    /\ fileWatcher = 0
    /\ periodicTimer = 0
    /\ disposables = <<[kind |-> "config", w |-> 0]>>
    /\ isRefreshing = FALSE
    /\ lastMetrics = NullMetrics
    /\ isDisposed = FALSE
    /\ emitters = [metricsUpdated |-> TRUE, refreshStarted |-> TRUE]
    /\ timers = {}
    /\ timerSeq = 2
    /\ watchers = <<>>
    /\ inflight = {}
    /\ nextRef = 1
    /\ ret = [kind |-> "none", snap |-> NullMetrics, overlap |-> {}, q |-> NoOutcome]
    /\ count = [load |-> 0, fetch |-> 0, startedFired |-> 0, started |-> 0,
                updatedFired |-> 0, updated |-> 0]
    /\ published = NullMetrics
    /\ watch = NoWatcher
    /\ dataService = DataIdle
    /\ quotaCalls = {}
    /\ reentrant = NoReentrantCall
    /\ retry = RetryIdle
    /\ api = ApiIdle

Next ==
    \/ TimerTick
    \/ FsEvent
    \/ DebounceFire
    \/ FsError
    \/ ManualRefresh
    \/ Initialize
    \/ SetMode
    \/ ConfigChange
    \/ Dispose
    \/ LoadDone
    \/ FetchDone

Spec == Init /\ [][Next]_vars

\* withRetry() on its own, under the options and the operations of any caller.
RetryNext ==
    \/ RetryCall
    \/ FnResolves
    \/ FnRejects
    \/ SleepDone

RetrySpec == Init /\ [][RetryNext]_vars

\* fetchQuota() on its own: the credentials, the token refresh, and the usage
\* request under withRetry.
ApiNext ==
    \/ fetchQuota
    \/ RefreshTokenDone
    \/ UsageRequestDone
    \/ SleepDone

ApiSpec == Init /\ [][ApiNext]_vars

\* One FileWatcher on its own, with the events of its directory and a clock.
WatchNext ==
    \/ WatchNew
    \/ WatchStart
    \/ WatchStop
    \/ WatchDispose
    \/ WatchEvent
    \/ WatchError
    \/ WatchTimeout
    \/ WatchAdvance

WatchSpec == Init /\ [][WatchNext]_vars

\* The data service on its own: one load and the aggregation of its result.
DataNext ==
    \/ LoadMetricsCall
    \/ WeeklyStatsCall

DataSpec == Init /\ [][DataNext]_vars

\* The manager with the quota fetch followed through its awaits.
QuotaNext ==
    \/ TimerTick
    \/ FsEvent
    \/ DebounceFire
    \/ FsError
    \/ ManualRefresh
    \/ Initialize
    \/ SetMode
    \/ ConfigChange
    \/ Dispose
    \/ LoadDone
    \/ QuotaCredentials
    \/ QuotaTokenResponse
    \/ QuotaSaveRead
    \/ QuotaSaveWrite
    \/ QuotaUsage
    \/ QuotaReturns

QuotaSpec == Init /\ [][QuotaNext]_vars

\* Every awaited loadMetrics() and fetchQuota() settles.
FairSpec == Spec /\ WF_vars(LoadDone) /\ WF_vars(FetchDone)

\* The refresh cycle with subscribers that call refresh() from their handlers.
ReentrantNext ==
    \/ RefreshWithHandler
    \/ LoadDone
    \/ FetchDoneWithHandler
    \/ Dispose

ReentrantSpec == Init /\ [][ReentrantNext]_vars

\* The armed interval timer keeps firing, and every awaited loadMetrics() and
\* fetchQuota() settles.
TimerFairSpec == Spec /\ WF_vars(TimerTick) /\ WF_vars(LoadDone) /\ WF_vars(FetchDone)

\* ------------------------------------------------------------------ claims

\* A refresh() call settled in this step with an early return.
EarlyReturn(kind) == ret' # ret /\ ret'.kind = kind

\* C1: at most one refresh executes at a time.  In every reachable state at
\* most one invocation is inside the local-load + remote-fetch sequence, and
\* while one is, no step calls the local data source, and the remote quota
\* source is called only by that invocation going on from its local load (a
\* refresh() call that arrives meanwhile settles in its own step with neither).
C1_AtMostOneRefresh ==
    /\ [](Cardinality(inflight) <= 1)
    /\ [][inflight # {} =>
            /\ count'.load = count.load
            /\ \A c \in inflight' : \E d \in inflight : d.metrics.ref = c.metrics.ref
            /\ count'.fetch # count.fetch =>
                  /\ \E c \in inflight : c.pc = "load"
                  /\ ret' = ret
            /\ EarlyReturn("busy") => count' = count /\ isRefreshing' = isRefreshing
         ]_vars

\* C1 witness: a refresh() call arrived while a cycle was in flight and
\* returned early; the cycle is still the only one.
C1_Witness ==
    /\ Cardinality(inflight) = 1
    /\ ret.kind = "busy"
    /\ count.load = 1

\* An invocation that was in flight settled in this step.
Settles(c) == c \in inflight /\ \A d \in inflight' : d.metrics.ref # c.metrics.ref

C3_FlagNeverLeaks ==
    /\ [](isRefreshing => inflight # {})
    /\ [][\A c \in inflight : Settles(c) =>
            ~isRefreshing' /\ ret'.kind \in {"done", "rejected"}]_vars
    /\ [][EarlyReturn("busy") => inflight # {}]_vars
    /\ (isRefreshing ~> ~isRefreshing)

\* C3 witness: a cycle rejected because the local step raised, the flag was
\* cleared, and a later refresh() call is executing a new cycle.
C3_Witness ==
    /\ ret.kind = "rejected"
    /\ isRefreshing
    /\ count.load = 2
    /\ Cardinality(inflight) = 1

\* The quota fetch failed: a failure result or a raised error.
QuotaFailed(q) ==
    \/ q.kind \in {"throwError", "throwOther"}
    \/ q.kind = "result" /\ ~q.success

\* C4: a quota failure never blocks or discards the local snapshot.  When
\* fetchQuota() settles with a failure result or raises, the cycle stores and
\* publishes the very snapshot loadMetrics() returned, its locally derived
\* fields unchanged, with quota unset and quotaError set to the failure's
\* message (a fixed message when the raised value is no Error).
C4_QuotaFailureKeepsLocal ==
    [][\A c \in inflight : Settles(c) /\ c.pc = "fetch" /\ QuotaFailed(ret'.q) =>
          /\ ret'.kind = "done"
          /\ lastMetrics' = ret'.snap
          /\ lastMetrics'.ref = c.metrics.ref
          /\ LocalFields(lastMetrics') = LocalFields(c.metrics)
          /\ lastMetrics'.quota = "none"
          /\ lastMetrics'.quotaError # "none"
          /\ lastMetrics'.quotaError =
                IF ret'.q.kind = "throwOther" THEN "Failed to fetch quota" ELSE ret'.q.error
          /\ count'.updatedFired = count.updatedFired + 1
          /\ emitters.metricsUpdated => published' = lastMetrics'
      ]_vars

\* C4 witness: a cycle whose quota fetch raised stored and published a
\* snapshot that carries the local statistics.
C4_Witness ==
    /\ ret.kind = "done"
    /\ ret.q.kind = "throwError"
    /\ ret.snap.dataAvailable /\ ret.snap.counters = 1
    /\ ret.snap.quotaError = "socket hang up"
    /\ lastMetrics = ret.snap
    /\ published = ret.snap

\* A watcher that has not been disposed of or that still holds something.
Exists(w) == w.emitter \/ w.handleOpen \/ w.timeoutArmed \/ w.isWatching

\* A watcher that can still produce a 'changed' signal.
CanFire(w) == w.handleOpen \/ w.timeoutArmed

ExistingWatchers == {i \in 1..Len(watchers) : Exists(watchers[i])}

\* A setMode() ran in this step on a manager that was not disposed.
ModeTransition == ~isDisposed /\ (SetMode \/ ConfigChange \/ Initialize)

\* C5: mode transitions never leave triggers of a previous mode active.  At
\* most one timer is armed and at most one watcher exists, they are the ones
\* the manager holds, stopping the current mode leaves nothing armed, and
\* after a setMode() every armed timer and every existing watcher was created
\* by it: a step that installs a timer or a watcher leaves no earlier one.
C5_NoStaleTriggers ==
    /\ [](Cardinality(timers) <= 1 /\ Cardinality(ExistingWatchers) <= 1)
    /\ [](\A t \in timers : t.id = periodicTimer)
    /\ [](\A i \in ExistingWatchers : i = fileWatcher)
    /\ [](LET m == stopCurrentMode(ModeState)
          IN m.timers = {} /\ \A i \in 1..Len(m.watchers) : ~Exists(m.watchers[i]))
    /\ [](~isDisposed =>
            \A mode \in Modes : \A cfg \in ConfigReads(mode) : \A env \in WatchEnvs(mode) :
               LET m == setMode(ModeState, isDisposed, mode, cfg, env[1], env[2])
               IN /\ TimerIds(m.timers) \cap TimerIds(timers) = {}
                  /\ \A i \in 1..Len(watchers) : ~Exists(m.watchers[i]))
    /\ [][timerSeq' # timerSeq =>
            TimerIds(timers') \cap TimerIds(timers) = {}]_vars
    /\ [][Len(watchers') > Len(watchers) =>
            \A i \in 1..Len(watchers) : ~Exists(watchers'[i])]_vars

\* C5 witness: a second realtime transition; the first watcher is disposed of,
\* the second one is watching, one timer is armed.
C5_Witness ==
    /\ ~isDisposed
    /\ Len(watchers) = 2
    /\ ~Exists(watchers[1])
    /\ watchers[2].isWatching
    /\ Cardinality(timers) = 1

\* C6: in manual mode there is no automatic trigger.  While the mode is manual
\* no timer is armed and no watcher can fire, and a step that starts a refresh
\* cycle is an explicit refresh request.
C6_ManualHasNoTrigger ==
    /\ [](currentMode = "manual" =>
            timers = {} /\ \A i \in 1..Len(watchers) : ~CanFire(watchers[i]))
    /\ [][currentMode = "manual" /\ count'.load # count.load =>
            ManualRefresh \/ Initialize]_vars

\* C6 witness: manual mode entered from realtime mode, with a refresh cycle
\* running.
C6_Witness ==
    /\ currentMode = "manual"
    /\ ~isDisposed
    /\ Len(watchers) >= 1
    /\ isRefreshing

\* C7 (as stated): after setMode('realtime') a change notifier is active and
\* exactly one timer is armed.
C7_Original ==
    [][ModeTransition /\ currentMode' = "realtime" =>
          /\ fileWatcher' # 0
          /\ watchers'[fileWatcher'].isWatching
          /\ watchers'[fileWatcher'].handleOpen
          /\ Cardinality(timers') = 1
      ]_vars

\* C7 (amended): after setMode('realtime') exactly one timer is armed and a
\* newly created change notifier with refresh() subscribed is installed; the
\* notifier is active exactly when the watched directory existed and the watch
\* could be set up, otherwise it declined to start and the timer is the only
\* active trigger.  A debounced signal of the installed notifier calls
\* refresh(): with no refresh in flight it starts a cycle.
C7_RealtimeWiring ==
    /\ [](~isDisposed =>
            \A cfg \in ConfigReads("realtime") : \A env \in WatchEnvs("realtime") :
               LET m == setMode(ModeState, isDisposed, "realtime", cfg, env[1], env[2])
                   w == m.watchers[m.fileWatcher]
               IN /\ m.currentMode = "realtime"
                  /\ m.fileWatcher = Len(watchers) + 1
                  /\ Len(m.watchers) = Len(watchers) + 1
                  /\ SignalReaches(w)
                  /\ w.isWatching = (env[1] /\ env[2])
                  /\ w.handleOpen = (env[1] /\ env[2])
                  /\ Cardinality(m.timers) = 1
                  /\ \A t \in m.timers : t.id = m.periodicTimer)
    /\ [](currentMode = "realtime" /\ ~isDisposed =>
            /\ fileWatcher # 0
            /\ SignalReaches(watchers[fileWatcher])
            /\ watchers[fileWatcher].isWatching = watchers[fileWatcher].handleOpen
            /\ Cardinality(timers) = 1)
    /\ [][/\ DebounceFire
          /\ ~isDisposed /\ ~isRefreshing
          /\ fileWatcher # 0
          /\ watchers[fileWatcher].timeoutArmed /\ ~watchers'[fileWatcher].timeoutArmed
          => count'.load = count.load + 1
         ]_vars

\* C7 witness: realtime mode with the notifier watching, a debounce pending
\* and the backup timer armed.
C7_Witness ==
    /\ currentMode = "realtime"
    /\ ~isDisposed
    /\ fileWatcher # 0
    /\ watchers[fileWatcher].isWatching
    /\ watchers[fileWatcher].timeoutArmed
    /\ Cardinality(timers) = 1

\* Settings in seconds around both ends of the allowed range.
ProbeSeconds == {0, 1, 2, 3, 4, 30, 299, 300, 301, 1000}

\* The interval the claim asks for, in milliseconds, for a setting in seconds.
ExpectedInterval(seconds) ==
    IF seconds < 3 THEN 3 * 1000
    ELSE IF seconds > 300 THEN 300 * 1000
    ELSE seconds * 1000

\* C8: the interval of every installed recurring timer lies within
\* [3 s, 300 s]: a transition to periodic or realtime mode arms exactly one
\* timer, whose interval is the configured one raised to 3 s when below,
\* lowered to 300 s when above, and unchanged when inside the range (the ends
\* of the range included); every step that changes the set of timers leaves
\* at most such a timer.
C8_IntervalClamped ==
    /\ [](\A t \in timers : 3 * 1000 <= t.interval /\ t.interval <= 300 * 1000)
    /\ [](\A seconds \in ProbeSeconds :
            clampInterval(seconds * 1000) = ExpectedInterval(seconds))
    /\ [](~isDisposed =>
            \A mode \in {"realtime", "periodic"} :
              \A cfg \in ConfigReads(mode) : \A env \in WatchEnvs(mode) :
                LET m == setMode(ModeState, isDisposed, mode, cfg, env[1], env[2])
                IN m.timers = {[id |-> m.periodicTimer,
                                interval |-> ExpectedInterval(
                                    IF mode = "realtime" THEN cfg.realtimeInterval
                                    ELSE cfg.refreshInterval)]})
    /\ [][timers' # timers =>
            \E seconds \in IntervalChoices :
               timers' \subseteq {[id |-> periodicTimer',
                                   interval |-> ExpectedInterval(seconds)]}]_vars

\* C8 witness: a periodic timer whose configured interval was above the range.
C8_Witness ==
    /\ currentMode = "periodic"
    /\ timers = {[id |-> periodicTimer, interval |-> 300000]}

\* initialize() on a disposed manager: applyConfiguration() returns at once
\* whatever the settings are, so one read of them stands for all.
DisposedInitialize ==
    isDisposed /\ \E cfg \in ConfigReads("manual") : InitializeWith(cfg, <<TRUE, TRUE>>)

\* C9: after dispose() a refresh() call does no work.  It calls neither data
\* source, emits no notification, leaves the in-flight flag alone, and
\* returns the last cached snapshot, or a new empty snapshot if none was
\* ever stored.
C9_DisposedRefreshIsNoOp ==
    [][isDisposed /\ (ManualRefresh \/ TimerTick \/ DebounceFire \/ DisposedInitialize) =>
          /\ UNCHANGED <<count, isRefreshing, inflight, lastMetrics, published>>
          /\ ret' # ret =>
                /\ ret'.kind = "disposed"
                /\ lastMetrics.ref # 0 => ret'.snap = lastMetrics
                /\ lastMetrics.ref = 0 =>
                      /\ ret'.snap.ref = nextRef
                      /\ ~ret'.snap.dataAvailable
                      /\ ret'.snap.counters = 0
                      /\ ret'.snap.quota = "none"
      ]_vars

\* C9 witness: a refresh() call after dispose() returned the snapshot of the
\* one cycle that ran.
C9_Witness ==
    /\ isDisposed
    /\ ret.kind = "disposed"
    /\ lastMetrics.ref # 0
    /\ ret.snap = lastMetrics
    /\ count.load = 1 /\ count.fetch = 1

\* C10: disposal is permanent and tears down all triggers.  Once set, the
\* disposed flag stays set; while it is set no timer is armed and no watcher
\* exists; and no later step, a setMode() or a configuration change included,
\* changes the mode or installs a trigger.
C10_DisposalIsPermanent ==
    /\ [][isDisposed => isDisposed']_vars
    /\ [](isDisposed =>
            /\ timers = {} /\ periodicTimer = 0 /\ fileWatcher = 0
            /\ ExistingWatchers = {}
            /\ ~configListener)
    /\ [][isDisposed => UNCHANGED modeVars]_vars

\* C10 witness: disposed while in realtime mode; the mode is still realtime
\* and nothing is armed.
C10_Witness ==
    /\ isDisposed
    /\ currentMode = "realtime"
    /\ Len(watchers) >= 1
    /\ timers = {}

\* C11: after dispose() no publish reaches a subscriber.  While the manager
\* is disposed both emitters are disposed, and no step delivers a 'refresh
\* started' or a 'snapshot updated' notification, the completion of a cycle
\* that was in flight at dispose() included.
C11_NoDeliveryAfterDispose ==
    /\ [](isDisposed => ~emitters.metricsUpdated /\ ~emitters.refreshStarted)
    /\ [][isDisposed =>
            /\ count'.started = count.started
            /\ count'.updated = count.updated
            /\ published' = published]_vars

\* C11 witness: a cycle that was in flight at dispose() has completed and
\* fired on the disposed emitter; nothing was delivered.
C11_Witness ==
    /\ isDisposed
    /\ inflight = {}
    /\ count.updatedFired = 1
    /\ count.updated = 0
    /\ count.started = 1

\* The snapshots refresh() has handed out: stored as last known, published,
\* and returned by the call that settled last.
HandedOut ==
    {s \in {lastMetrics, published} : s.ref # 0}
    \cup (IF ret.kind \in {"done", "busy", "disposed"} THEN {ret.snap} ELSE {})

\* C12: quota and quotaError are mutually exclusive on every snapshot
\* refresh() returned, stored as last known, or published.
C12_QuotaXorError ==
    \A s \in HandedOut : ~(s.quota # "none" /\ s.quotaError # "none")

\* C12 witness: one snapshot with quota data and one with a quota error have
\* been handed out.
C12_Witness ==
    /\ lastMetrics.ref # 0 /\ lastMetrics.quotaError # "none"
    /\ published.ref # 0 /\ published # lastMetrics /\ published.quota # "none"

\* The snapshots loadMetrics() has produced and that are still in a cycle.
Loaded == {c.metrics : c \in {d \in inflight : d.pc = "fetch"}}

\* C13 (as stated): every snapshot loadMetrics() produced, refresh() returned
\* or published has, when dataAvailable is false, all counters zero and an
\* error set.
C13_Original ==
    \A s \in HandedOut \cup Loaded :
        ~s.dataAvailable => s.counters = 0 /\ s.error # "none"

\* The outcome of the attempt that settled last.
LastOutcome(r) == r.outcomes[Len(r.outcomes)]

\* An attempt of the withRetry() call settled in this step.
AttemptSettles == Len(retry'.outcomes) = Len(retry.outcomes) + 1

\* C14: withRetry propagates a non-retryable failure at once.  When an
\* attempt fails with an error that isRetryable rejects, withRetry throws that
\* very error in the same step, with no further call of the operation and no
\* delay, however many attempts remain; and a settled withRetry does nothing
\* more.
C14_NonRetryablePropagates ==
    /\ [][/\ AttemptSettles
          /\ LastOutcome(retry').class # "value"
          /\ ~isRetryable(retry.opts, LastOutcome(retry'))
          => /\ retry'.pc = "thrown"
             /\ retry'.result = LastOutcome(retry')
             /\ retry'.calls = retry.calls
             /\ retry'.waits = retry.waits
         ]_vars
    /\ [][retry.pc \in {"thrown", "returned"} => retry' = retry]_vars

\* C14 witness: the first of three attempts failed with an error the caller
\* does not accept, and withRetry has thrown it.
C14_Witness ==
    /\ retry.pc = "thrown"
    /\ retry.opts.maxAttempts = 3
    /\ retry.calls = 1
    /\ retry.result.class = "Fatal"
    /\ retry.waits = <<>>

\* Every attempt so far failed with an error isRetryable accepts.
AllRetryable(r) ==
    \A k \in 1..Len(r.outcomes) :
        r.outcomes[k].class # "value" /\ isRetryable(r.opts, r.outcomes[k])

\* C15: when every attempt fails with a retryable error, withRetry has called
\* the operation exactly maxAttempts times and waited exactly maxAttempts-1
\* times when it throws, and it throws the error of the last attempt; a wait
\* stands between two consecutive attempts only (after each wait the
\* operation is called again, and there is no wait after the final attempt);
\* on the first success withRetry returns that result and calls no more.
C15_ExhaustsAttempts ==
    /\ [](retry.pc = "thrown" /\ AllRetryable(retry) =>
            /\ retry.calls = retry.opts.maxAttempts
            /\ Len(retry.outcomes) = retry.opts.maxAttempts
            /\ Len(retry.waits) = retry.opts.maxAttempts - 1
            /\ retry.result = retry.outcomes[retry.opts.maxAttempts]
            /\ retry.result.id = retry.opts.maxAttempts)
    /\ [](retry.pc = "call" => Len(retry.waits) = retry.calls - 1)
    /\ [](retry.pc = "sleep" =>
            Len(retry.waits) = retry.calls /\ retry.calls < retry.opts.maxAttempts)
    /\ [][retry.pc = "sleep" =>
            retry'.pc = "call" /\ retry'.calls = retry.calls + 1]_vars
    /\ [](retry.pc = "returned" =>
            /\ retry.result = LastOutcome(retry)
            /\ retry.result.class = "value"
            /\ retry.calls = Len(retry.outcomes)
            /\ \A k \in 1..(Len(retry.outcomes) - 1) : retry.outcomes[k].class # "value")
    /\ [][retry.pc = "returned" => retry' = retry]_vars

\* C15 witness: three attempts, each failed with a retryable error; two waits;
\* the third error is thrown.
C15_Witness ==
    /\ retry.pc = "thrown"
    /\ api.pc = "idle"
    /\ retry.opts.isRetryable = "transient"
    /\ retry.opts.maxAttempts = 3
    /\ AllRetryable(retry)
    /\ retry.calls = 3
    /\ Len(retry.waits) = 2
    /\ retry.result.id = 3

\* base_i = min(initialDelay * backoffMultiplier^i, maxDelay), as a fraction.
Base(opts, i) ==
    LET n == opts.initialDelayMs * Pow(opts.backoffMultiplier.num, i)
        d == Pow(opts.backoffMultiplier.den, i)
    IN IF n <= opts.maxDelayMs * d THEN Fraction(n, d) ELSE Fraction(opts.maxDelayMs, 1)

\* C16 (as stated): the wait after failed attempt i is base_i without jitter
\* and lies in [base_i, 1.5 * base_i] with jitter; without jitter the waits
\* are non-decreasing in i; base_i never exceeds maxDelay.
C16_Original ==
    \A k \in 1..Len(retry.waits) :
        LET b == Base(retry.opts, k - 1)
            w == retry.waits[k]
        IN /\ b.num <= retry.opts.maxDelayMs * b.den
           /\ ~retry.opts.jitter => w * b.den = b.num
           /\ retry.opts.jitter => b.num <= w * b.den /\ 2 * w * b.den <= 3 * b.num
           /\ ~retry.opts.jitter /\ k > 1 => retry.waits[k - 1] <= w

\* C16 (amended): the wait after failed attempt i is floor(base_i) without
\* jitter and lies in [floor(base_i), 1.5 * base_i] with jitter; base_i never
\* exceeds maxDelay; without jitter and with backoffMultiplier >= 1 the waits
\* are non-decreasing in i.
C16_BackoffDelay ==
    \A k \in 1..Len(retry.waits) :
        LET b == Base(retry.opts, k - 1)
            w == retry.waits[k]
        IN /\ b.num <= retry.opts.maxDelayMs * b.den
           /\ ~retry.opts.jitter => w = b.num \div b.den
           /\ retry.opts.jitter => b.num \div b.den <= w /\ 2 * w * b.den <= 3 * b.num
           /\ (/\ ~retry.opts.jitter
               /\ retry.opts.backoffMultiplier.num >= retry.opts.backoffMultiplier.den
               /\ k > 1) => retry.waits[k - 1] <= w

\* C16 witness: initialDelay 1 ms, multiplier 3/2, no jitter: base_1 is 1.5 ms
\* and the second wait is 1 ms.
C16_Witness ==
    /\ api.pc = "idle"
    /\ ~retry.opts.jitter
    /\ retry.opts.initialDelayMs = 1
    /\ retry.opts.backoffMultiplier = Fraction(3, 2)
    /\ retry.opts.maxDelayMs = 5000
    /\ retry.waits = <<1, 1>>

\* How the claims class the end of a usage request: one of the statuses 408,
\* 429, 500, 502, 503, 504, a network-layer fault, or a request timeout.
RetryableOutcome(response) ==
    \/ response.kind \in {"error", "timeout"}
    \/ response.kind = "response" /\ response.status \in {408, 429, 500, 502, 503, 504}

\* A 200 response; one whose body parses.
Is200(response) == response.kind = "response" /\ response.status = 200
Parses(response) == response.body # "malformed"

\* What JSON.parse makes of the body of a 200 response.
Payload(response) == IF response.body = "null" THEN "none" ELSE "quotaData"

\* fetchQuota() has returned after at least one usage request.
DoneAfterUsage == api.pc = "done" /\ Len(api.responses) > 0

\* C17 (as stated): fetchQuota() succeeds with the 200 payload exactly when
\* the last request got a 200 and every earlier one failed retryably; when
\* maxAttempts requests all failed retryably it returns a failure after
\* exactly maxAttempts requests; no failure is returned while retryable
\* failures leave attempts.
C17_Original ==
    /\ DoneAfterUsage =>
          LET n == Len(api.responses)
              last == api.responses[n]
          IN /\ n <= retry.opts.maxAttempts
             /\ \A k \in 1..(n - 1) : RetryableOutcome(api.responses[k])
             /\ (api.result.success /\ api.result.data = Payload(last)) <=> Is200(last)
             /\ RetryableOutcome(last) => n = retry.opts.maxAttempts /\ ~api.result.success
    /\ api.pc = "usage" =>
          /\ Len(api.responses) < retry.opts.maxAttempts
          /\ \A k \in 1..Len(api.responses) : RetryableOutcome(api.responses[k])

\* C17 (amended): fetchQuota() succeeds with the parsed 200 payload exactly
\* when the last request got a 200 whose body parses and every earlier one
\* failed retryably (a 200 whose body does not parse ends the call with a
\* failure, without retry); when maxAttempts requests all failed retryably it
\* returns a failure after exactly maxAttempts requests and maxAttempts-1
\* waits; no failure is returned while retryable failures leave attempts.
C17_RetryThenResult ==
    /\ DoneAfterUsage =>
          LET n == Len(api.responses)
              last == api.responses[n]
          IN /\ n <= retry.opts.maxAttempts
             /\ retry.calls = n
             /\ \A k \in 1..(n - 1) : RetryableOutcome(api.responses[k])
             /\ api.result.success <=> (Is200(last) /\ Parses(last))
             /\ api.result.success => api.result.data = Payload(last)
             /\ RetryableOutcome(last) =>
                   /\ n = retry.opts.maxAttempts
                   /\ Len(retry.waits) = n - 1
                   /\ ~api.result.success
    /\ api.pc = "usage" =>
          /\ Len(api.responses) < retry.opts.maxAttempts
          /\ \A k \in 1..Len(api.responses) : RetryableOutcome(api.responses[k])

\* C17 witness: unexpired credentials, 429 on the first two requests, 200 on
\* the third: success with the payload.
C17_Witness ==
    /\ api.pc = "done"
    /\ api.tokenRefreshes = 0
    /\ Len(api.responses) = 3
    /\ api.responses[1].status = 429 /\ api.responses[2].status = 429
    /\ Is200(api.responses[3])
    /\ api.result.success /\ api.result.data = "quotaData"

\* A usage request ended in this step.
UsageRequestEnds == Len(api'.responses) = Len(api.responses) + 1

\* C18: a 401 from the usage endpoint is terminal.  The step in which a
\* request ends with a 401, on whichever attempt, makes fetchQuota() return a
\* failure, with no wait and no call added, and nothing happens after
\* fetchQuota() has returned.
C18_UnauthorizedIsTerminal ==
    /\ [][UsageRequestEnds /\ api'.responses[Len(api'.responses)].status = 401 =>
            /\ api'.pc = "done"
            /\ ~api'.result.success
            /\ api'.result.error # "none"
            /\ retry'.calls = retry.calls
            /\ retry'.calls = Len(api'.responses)
            /\ retry'.waits = retry.waits
            /\ retry'.pc = "returned"
         ]_vars
    /\ [][api.pc = "done" => retry' = retry /\ api' = api]_vars

\* C18 witness: a 429, then a 401 on the second request: a failure after two
\* requests and one wait.
C18_Witness ==
    /\ api.pc = "done"
    /\ Len(api.responses) = 2
    /\ api.responses[1].status = 429
    /\ api.responses[2].status = 401
    /\ ~api.result.success
    /\ retry.calls = 2

\* C19: a usage request is followed by another one only if it ended with a
\* retryable outcome and attempts remain; any other outcome makes
\* fetchQuota() return a result in the same step; and fetchQuota() never
\* raises: when withRetry throws, fetchQuota() has returned a failure result.
C19_OnlyRetryableRetried ==
    /\ [][UsageRequestEnds =>
            LET last == api'.responses[Len(api'.responses)]
            IN /\ retry'.pc = "sleep" =>
                     RetryableOutcome(last) /\ Len(api'.responses) < retry.opts.maxAttempts
               /\ ~RetryableOutcome(last) =>
                     /\ api'.pc = "done"
                     /\ api'.result.class = "value"
                     /\ api'.result.success <=> (Is200(last) /\ Parses(last))
               /\ retry'.pc # "call"
         ]_vars
    /\ [][retry'.calls > retry.calls /\ Len(api.responses) > 0 =>
            /\ retry.pc = "sleep"
            /\ RetryableOutcome(api.responses[Len(api.responses)])
            /\ Len(api.responses) < retry.opts.maxAttempts]_vars
    /\ [](retry.pc \in {"thrown", "returned"} /\ api.pc # "idle" =>
            api.pc = "done" /\ api.result.class = "value")
    /\ [](retry.pc = "thrown" /\ api.pc # "idle" =>
            ~api.result.success /\ api.result.error # "none")

\* C19 witness: a 503, then a 404: fetchQuota() has returned a failure after
\* the second request.
C19_Witness ==
    /\ api.pc = "done"
    /\ Len(api.responses) = 2
    /\ api.responses[1].status = 503
    /\ api.responses[2].status = 404
    /\ api.result = Failure("API error: 404")

\* C20: fetchQuota() runs the token refresh at most once, before the first
\* usage request, and exactly when now > expiresAt - 5 minutes for the
\* credentials it loaded.
C20_TokenRefreshWhenExpired ==
    /\ [](api.tokenRefreshes <= 1)
    /\ [][api'.tokenRefreshes # api.tokenRefreshes =>
            /\ api.pc = "idle"
            /\ retry'.calls = 0
            /\ api'.responses = <<>>]_vars
    /\ [](api.pc # "idle" /\ api.expiresAt # NoCredentials =>
            (api.tokenRefreshes = 1 <=> NowMs > api.expiresAt - 300000))
    /\ [](api.pc # "idle" /\ api.expiresAt = NoCredentials => api.tokenRefreshes = 0)
    /\ [](retry.calls > 0 /\ api.pc # "idle" =>
            (api.tokenRefreshes = 1 <=> NowMs > api.expiresAt - 300000))

\* C20 witness: credentials that expire one millisecond inside the buffer:
\* one token refresh, then a usage request.
C20_Witness ==
    /\ api.expiresAt = NowMs + 300000 - 1
    /\ api.tokenRefreshes = 1
    /\ retry.calls = 1
    /\ api.pc = "usage"

\* fetchQuota() has returned a failure and the usage endpoint was never called.
FailedWithoutUsageCall ==
    /\ api.pc = "done"
    /\ ~api.result.success
    /\ api.result.error # "none"
    /\ retry.pc = "idle"
    /\ retry.calls = 0
    /\ api.responses = <<>>

\* C21: a fetchQuota() that can load no credentials, or whose token refresh
\* fails, returns a failure without any request to the usage endpoint; the
\* token refresh is attempted once and is never retried.
C21_CredentialFailureIsTerminal ==
    /\ [](api.pc # "idle" /\ getCredentials(api.fileAtCall) = NoCredentials =>
            FailedWithoutUsageCall /\ api.tokenRefreshes = 0)
    /\ [](api.pc # "idle" /\ api.pc # "refreshing" /\ api.tokenRefreshes = 1
          /\ api.refreshed = NoCredentials => FailedWithoutUsageCall)
    /\ [][api.pc = "refreshing" =>
            api'.pc \in {"done", "usage"} /\ api'.tokenRefreshes = 1]_vars
    /\ [](api.tokenRefreshes <= 1)

\* C21 witness: the one token refresh has failed and fetchQuota() has returned.
C21_Witness ==
    /\ api.tokenRefreshes = 1
    /\ api.refreshed = NoCredentials
    /\ api.result = Failure("Failed to refresh OAuth token. Please log in to Claude Code again.")
    /\ FailedWithoutUsageCall

\* The token refresh of this fetchQuota() call has succeeded.
RefreshSucceeded == api.pc # "idle" /\ api.refreshed # NoCredentials

\* The file holds the refreshed credentials in its OAuth entry, and its other
\* fields are those it had when fetchQuota() was called.
HoldsNewCredentials ==
    /\ api.file.state = "ok"
    /\ api.file.accessToken = NewCreds.accessToken
    /\ api.file.expiresAt = NewCreds.expiresAt
    /\ api.file.other = api.fileAtCall.other

Constructed == watch.pc = "constructed"

\* _onFileChanged fired in this step.
Signalled == Constructed /\ watch'.signals # watch.signals

\* C23: the watcher debounces.  Every 'changed' signal comes one debounce
\* window (500 ms) after the most recent event for the watched file; events
\* less than 500 ms apart share one signal, no event gets two, a burst that is
\* not stopped is waiting for its signal or has had it; an event for another
\* file arms nothing and signals nothing.
C23_DebounceOneSignal ==
    /\ [](Constructed => \A k \in 1..Len(watch.signals) :
            /\ watch.signals[k].events >= 1
            /\ watch.signals[k].at =
                  watch.eventTimes[watch.signals[k].events] + debounceMs)
    /\ [](Constructed => \A k \in 1..(Len(watch.signals) - 1) :
            watch.signals[k].events < watch.signals[k + 1].events)
    /\ [](Constructed => \A i \in 1..(Len(watch.eventTimes) - 1) :
            watch.eventTimes[i + 1] - watch.eventTimes[i] < debounceMs =>
                \A k \in 1..Len(watch.signals) : watch.signals[k].events # i)
    /\ [](Constructed /\ watch.pending > 0 =>
            /\ watch.w.timeoutArmed
            /\ watch.deadline = watch.eventTimes[Len(watch.eventTimes)] + debounceMs
            /\ watch.now <= watch.deadline)
    /\ [][Constructed /\ watch.pending > 0 /\ watch'.pending = 0 /\ watch'.sinceStop > 0
          /\ watch.w.emitter =>
            /\ Len(watch'.signals) = Len(watch.signals) + 1
            /\ watch'.signals[Len(watch'.signals)].events = Len(watch.eventTimes)]_vars
    /\ [][Constructed /\ watch'.ignored # watch.ignored =>
            /\ watch'.w = watch.w
            /\ watch'.deadline = watch.deadline
            /\ watch'.signals = watch.signals]_vars

\* C23 witness: three events for the file 100 ms apart and one signal,
\* 500 ms after the third.
C23_Witness ==
    /\ Constructed
    /\ watch.eventTimes = <<0, 100, 200>>
    /\ watch.signals = <<[at |-> 700, events |-> 3]>>

\* C24: stop() and dispose() cancel the pending debounce timeout, so no
\* 'changed' signal follows them; a signal occurs only while watching, after
\* a start() that opened a handle and an event that came after it.
C24_NoSignalAfterStop ==
    /\ [](Constructed /\ ~watch.w.isWatching => ~watch.w.timeoutArmed /\ ~watch.w.handleOpen)
    /\ [](Constructed /\ watch.sinceStop > 0 => watch.startedSinceStop)
    /\ [][Signalled =>
            /\ watch.w.isWatching
            /\ watch.startedSinceStop
            /\ watch.sinceStop > 0
            /\ watch.pending > 0]_vars
    /\ [][Constructed /\ watch.pending > 0 /\ watch'.sinceStop = 0 =>
            /\ ~watch'.w.timeoutArmed
            /\ ~watch'.w.debounceTimer
            /\ watch'.signals = watch.signals]_vars

\* C24 witness: an event armed the timeout, stop() cancelled it, and after a
\* new start() and a new event the signal came.
C24_Witness ==
    /\ Constructed
    /\ watch.eventTimes = <<0, 100>>
    /\ watch.signals = <<[at |-> 600, events |-> 2]>>
    /\ watch.sinceStop = 1

\* The loadMetrics() call has settled.
Loaded25 == dataService.pc # "idle"

\* The load met a missing directory, or a cache file it could not read or parse.
ReadOrParseError ==
    \/ ~dataService.env.dirExists
    \/ dataService.env.cache.state \in {"unreadable", "corrupt"}

\* C25 as stated: loadMetrics() never throws, and on a read or parse error
\* (missing directory, unreadable or corrupt cache file) the snapshot has
\* dataAvailable=false and an error message.
C25_Original ==
    [](Loaded25 =>
          /\ ~dataService.thrown
          /\ ReadOrParseError =>
                ~dataService.metrics.dataAvailable /\ dataService.metrics.error # "none")

\* C25: loadMetrics() never throws.  A missing data directory, and an error
\* raised while the parsed cache is copied into the snapshot, give
\* dataAvailable=false with an error message; an absent, unreadable or corrupt
\* cache file is read as "no statistics": dataAvailable=true, no error, zero
\* counters.
C25_LoadNeverThrows ==
    [](Loaded25 =>
          /\ ~dataService.thrown
          /\ ~dataService.env.dirExists =>
                /\ ~dataService.metrics.dataAvailable
                /\ dataService.metrics.error =
                      "Claude data directory not found. Is Claude Code installed?"
          /\ (dataService.env.dirExists
              /\ dataService.env.cache.state \in {"absent", "unreadable", "corrupt"}) =>
                /\ dataService.metrics.dataAvailable
                /\ dataService.metrics.error = "none"
                /\ dataService.metrics.totalSessions = 0
                /\ dataService.metrics.todayMessages = 0
                /\ dataService.metrics.dailyActivity = <<>>
          /\ (dataService.env.dirExists
              /\ dataService.env.cache.state = "json") =>
                IF dataService.env.cache.stats.shape = "ok"
                THEN dataService.metrics.dataAvailable
                     /\ dataService.metrics.error = "none"
                ELSE ~dataService.metrics.dataAvailable
                     /\ dataService.metrics.error = "Error loading metrics: TypeError")

\* C25 witness: the cache parsed but copying it raised an error, and the load
\* returned a snapshot that reports it.
C25_Witness ==
    /\ Loaded25
    /\ dataService.env.dirExists
    /\ dataService.env.cache.state = "json"
    /\ dataService.env.cache.stats.shape = "nullModelUsage"
    /\ ~dataService.thrown
    /\ ~dataService.metrics.dataAvailable
    /\ dataService.metrics.error = "Error loading metrics: TypeError"

\* The load read a cache of the expected shape in an existing directory.
LoadedStats ==
    /\ Loaded25
    /\ dataService.env.dirExists
    /\ dataService.env.cache.state = "json"
    /\ dataService.env.cache.stats.shape = "ok"

\* The field of the entry of the series dated d, or 0 without such an entry.
OnDay(series, d, field) ==
    IF FindDate(series, d) = 0 THEN 0 ELSE series[FindDate(series, d)][field]

\* C26 as stated: today's message, session and tool-call counters are those
\* of the daily-activity entry dated today's calendar date in local time, and
\* today's tokens those of the daily-token entry of that date, each series on
\* its own; without such an entry the counters are zero.
C26_Original ==
    [](LoadedStats =>
          LET today == dataService.env.clock.localDay
              stats == dataService.env.cache.stats
          IN /\ dataService.metrics.todayMessages =
                    OnDay(stats.dailyActivity, today, "messageCount")
             /\ dataService.metrics.todaySessions =
                    OnDay(stats.dailyActivity, today, "sessionCount")
             /\ dataService.metrics.todayToolCalls =
                    OnDay(stats.dailyActivity, today, "toolCallCount")
             /\ dataService.metrics.todayTokens =
                    OnDay(stats.dailyModelTokens, today, "tokens"))

\* The sum of field(entry) over the entries dated from first to last.
SumWithin(series, first, last, field) ==
    SumSeq([i \in 1..Len(series) |->
               IF series[i].date >= first /\ series[i].date <= last
               THEN series[i][field] ELSE 0])

\* The loaded series have no entry dated after today.
NoLaterEntries ==
    /\ \A i \in 1..Len(dataService.metrics.dailyActivity) :
          dataService.metrics.dailyActivity[i].date <= dataService.env.clock.utcDay
    /\ \A i \in 1..Len(dataService.metrics.dailyModelTokens) :
          dataService.metrics.dailyModelTokens[i].date <= dataService.env.clock.utcDay

\* C27 as stated: the weekly statistics sum the entries of the trailing seven
\* calendar days, today included (here with the local day equal to the UTC
\* day and no entry dated after today).
C27_Original ==
    []((/\ dataService.pc = "aggregated"
        /\ dataService.env.clock.localDay = dataService.env.clock.utcDay
        /\ NoLaterEntries) =>
          LET today == dataService.env.clock.localDay
              m == dataService.metrics
          IN /\ dataService.weekly.messages =
                    SumWithin(m.dailyActivity, today - 6, today, "messageCount")
             /\ dataService.weekly.sessions =
                    SumWithin(m.dailyActivity, today - 6, today, "sessionCount")
             /\ dataService.weekly.tokens =
                    SumWithin(m.dailyModelTokens, today - 6, today, "tokens")
             /\ dataService.weeklyMessages = dataService.weekly.messages)

\* The inputs of the load with the access token replaced by tok.
WithToken(env, tok) == [env EXCEPT !.creds.accessToken = tok]

Loading == {c \in inflight : c.pc = "load"}
Fetching == {c \in inflight : c.pc = "fetch"}

\* The number of cycles so far whose loadMetrics() raised.
RejectedCycles == count.load - count.fetch - Cardinality(Loading)

\* C29: the steps of a refresh cycle come in a fixed order, each once.  The
\* step that sets the flag emits 'refresh started' and starts the load; the
\* fetch starts in the step in which the load of the same cycle completes,
\* never earlier; the step in which the fetch completes stores the snapshot,
\* emits 'snapshot updated' and clears the flag; the flag is set throughout.
\* As long as no load has raised, 'refresh started' and 'snapshot updated'
\* alternate.
C29_CycleStepOrder ==
    /\ [][count'.load # count.load =>
            /\ ~isRefreshing /\ isRefreshing'
            /\ count'.load = count.load + 1
            /\ count'.startedFired = count.startedFired + 1
            /\ count'.fetch = count.fetch
            /\ count'.updatedFired = count.updatedFired
            /\ lastMetrics' = lastMetrics
            /\ Cardinality(Loading') = 1 /\ Fetching' = {}]_vars
    /\ [][count'.fetch # count.fetch =>
            /\ count'.fetch = count.fetch + 1
            /\ \E c \in Loading : \E d \in Fetching' : d.metrics.ref = c.metrics.ref
            /\ Loading' = {}
            /\ isRefreshing /\ isRefreshing'
            /\ count'.load = count.load
            /\ count'.updatedFired = count.updatedFired
            /\ lastMetrics' = lastMetrics]_vars
    /\ [][count'.updatedFired # count.updatedFired \/ lastMetrics' # lastMetrics =>
            /\ count'.updatedFired = count.updatedFired + 1
            /\ \E c \in Fetching : lastMetrics'.ref = c.metrics.ref
            /\ inflight' = {}
            /\ isRefreshing /\ ~isRefreshing'
            /\ count'.load = count.load /\ count'.fetch = count.fetch]_vars
    /\ [](/\ isRefreshing <=> inflight # {}
          /\ count.startedFired = count.load
          /\ count.updatedFired = count.fetch - Cardinality(Fetching))
    /\ [](RejectedCycles = 0 /\ emitters.refreshStarted /\ emitters.metricsUpdated =>
            count.started = count.updated + Cardinality(inflight))
    /\ [][RejectedCycles = 0 /\ count'.started # count.started =>
            count.started = count.updated /\ count'.updated = count.updated]_vars
    /\ [][RejectedCycles = 0 /\ count'.updated # count.updated =>
            count.started = count.updated + 1 /\ count'.started = count.started]_vars

\* C29 witness: two cycles ran to their end one after the other, with two
\* 'refresh started' and two 'snapshot updated' notifications delivered.
C29_Witness ==
    /\ count.load = 2
    /\ count.fetch = 2
    /\ count.started = 2
    /\ count.updated = 2
    /\ inflight = {}
    /\ ~isRefreshing

\* The cycle c is in flight after this step exactly as before it.
Untouched(c) ==
    \E d \in inflight' : d.pc = c.pc /\ d.metrics = c.metrics

\* The cycle c went on by a step of its own: its load completed and its fetch
\* began, or its load raised, or its fetch completed and it stored and
\* published its snapshot.
WentOn(c) ==
    \/ /\ c.pc = "load"
       /\ \E d \in inflight' : d.pc = "fetch" /\ d.metrics.ref = c.metrics.ref
    \/ /\ c.pc = "load"
       /\ Settles(c)
       /\ ret'.kind = "rejected"
    \/ /\ c.pc = "fetch"
       /\ Settles(c)
       /\ ret'.kind = "done"
       /\ ret'.snap.ref = c.metrics.ref
       /\ lastMetrics' = ret'.snap
       /\ count'.updatedFired = count.updatedFired + 1

\* C30: a refresh in flight is never cancelled and ignored triggers are not
\* queued.  Every step leaves the cycle in flight as it is or is a step of the
\* cycle itself; a refresh() call turned away as busy, and a mode change,
\* leave the cycle, the flag, the stored snapshot and all counts as they are;
\* a cycle starts only in a step taken while none is in flight, so the step
\* that completes a cycle starts no other.
C30_NoCancelNoQueue ==
    /\ [][\A c \in inflight : Untouched(c) \/ WentOn(c)]_vars
    /\ [][EarlyReturn("busy") =>
            /\ \A c \in inflight : Untouched(c)
            /\ count' = count
            /\ lastMetrics' = lastMetrics
            /\ published' = published
            /\ isRefreshing' = isRefreshing]_vars
    /\ [][inflight # {} /\ modeVars' # modeVars =>
            /\ \A c \in inflight : Untouched(c)
            /\ count'.fetch = count.fetch
            /\ count'.updatedFired = count.updatedFired
            /\ lastMetrics' = lastMetrics
            /\ isRefreshing' = isRefreshing]_vars
    /\ [][count'.load # count.load => inflight = {} /\ ~isRefreshing]_vars
    /\ [][(\E c \in inflight : Settles(c)) =>
            count'.load = count.load /\ inflight' = {} /\ ~isRefreshing']_vars

\* C30 witness: a refresh() call was turned away while the cycle was in
\* flight; the cycle has completed with one snapshot stored and published,
\* and no other cycle has started.
C30_Witness ==
    /\ ret.kind = "done"
    /\ ret.overlap # {}
    /\ count.load = 1
    /\ count.updatedFired = 1
    /\ lastMetrics.ref = ret.snap.ref
    /\ inflight = {}
    /\ ~isRefreshing

\* C31: the last-known snapshot changes only by whole replacement at the end
\* of an executed cycle, after the quota merge.  A step that changes it is the
\* step in which the fetch of the cycle in flight settles, and the new value
\* is that cycle's loaded snapshot with the quota outcome merged, an object
\* other than the one stored before; every cycle works on an object no
\* earlier snapshot has; no stored, published or returned snapshot is the
\* object of a cycle still in flight; and an object that was stored, published
\* or returned has the same content after every step.
C31_SnapshotReplacedWhole ==
    /\ [][lastMetrics' # lastMetrics =>
            \E c \in Fetching :
               /\ Settles(c)
               /\ ret'.kind = "done"
               /\ lastMetrics' = mergeQuota(c.metrics, ret'.q)
               /\ lastMetrics'.ref # lastMetrics.ref
         ]_vars
    /\ [][count'.load # count.load =>
            /\ nextRef' = nextRef + 1
            /\ \E c \in inflight' : c.metrics = createEmptyMetrics(nextRef)
            /\ \A s \in HandedOut : s.ref < nextRef]_vars
    /\ [](\A s \in HandedOut : s.ref < nextRef)
    /\ [](\A c \in inflight : \A s \in HandedOut : s.ref # c.metrics.ref)
    /\ [][\A s \in HandedOut : \A t \in HandedOut' : s.ref = t.ref => s = t]_vars

\* C31 witness: a second cycle is waiting for its quota fetch, and a refresh()
\* call made meanwhile read the snapshot of the first cycle, complete with its
\* quota data.
C31_Witness ==
    /\ \E c \in Fetching : c.metrics.ref = 2
    /\ lastMetrics.ref = 1
    /\ lastMetrics.quota # "none"
    /\ ret.kind = "busy"
    /\ ret.snap = lastMetrics

\* The calls inside refreshToken() (the token request or the save that follows
\* it), and those inside the read-modify-write of saveCredentials().
TokenRefreshing == {k \in quotaCalls : k.pc \in {"token", "saveRead", "saveWrite"}}
Saving == {k \in quotaCalls : k.pc \in {"saveRead", "saveWrite"}}

\* C32: the manager never issues overlapping read-modify-write sequences on
\* the credentials file.  Under every interleaving of timer ticks,
\* file-change signals, refresh requests, mode changes and disposal, at most
\* one fetchQuota() call is in progress, so at most one token refresh and at
\* most one saveCredentials(); a call in progress belongs to the cycle in
\* flight, whose flag is set; and a save begins only out of the token request
\* of that call, when no save is in progress.
C32_NoOverlappingSave ==
    /\ [](Cardinality(Fetching) <= 1 /\ Cardinality(quotaCalls) <= 1)
    /\ [](Cardinality(TokenRefreshing) <= 1 /\ Cardinality(Saving) <= 1)
    /\ [](\A k \in quotaCalls :
            isRefreshing /\ \E c \in Fetching : c.metrics.ref = k.ref)
    /\ [][\A k \in Saving' :
            \/ \E j \in Saving : j.ref = k.ref
            \/ Saving = {} /\ \E j \in quotaCalls : j.ref = k.ref /\ j.pc = "token"]_vars
    /\ [][(\E k \in Saving : TRUE) => count'.load = count.load]_vars

\* C32 witness: the save of a refreshed token is waiting for its write while
\* a refresh request was turned away and the backup timer of realtime mode is
\* armed.
C32_Witness ==
    /\ \E k \in quotaCalls : k.pc = "saveWrite"
    /\ ret.kind = "busy"
    /\ currentMode = "realtime"
    /\ Cardinality(timers) = 1

\* The tokens the usage requests of the call carried so far.
SentTokens == {api.sent[i] : i \in 1..Len(api.sent)}

\* C33: every usage request of one fetchQuota() call carries the same access
\* token: the one the token refresh returned when a refresh was performed in
\* the call, whether or not the new credentials could be saved to the file,
\* and the one loaded from the file otherwise; each request carries one token.
C33_OneTokenPerCall ==
    /\ [](api.pc # "idle" =>
            /\ Cardinality(SentTokens) <= 1
            /\ Len(api.sent) = Len(api.responses)
            /\ api.refreshed # NoCredentials => SentTokens \subseteq {NewCreds.accessToken}
            /\ api.tokenRefreshes = 0 => SentTokens \subseteq {api.fileAtCall.accessToken}
            /\ api.tokenRefreshes > 0 /\ api.refreshed = NoCredentials => SentTokens = {})
    /\ [][api.pc = "usage" /\ Len(api'.sent) > Len(api.sent) =>
            /\ api'.sent = Append(api.sent, api.accessToken)
            /\ api'.accessToken = api.accessToken]_vars

\* C33 witness: the token was refreshed, the save failed and the file still
\* holds the expired token, and three usage requests were made with the new one.
C33_Witness ==
    /\ api.pc = "done"
    /\ api.refreshed # NoCredentials
    /\ api.file.accessToken = "loaded"
    /\ api.sent = <<"refreshed", "refreshed", "refreshed">>

\* No setMode() has run yet: the manager is as its constructor left it.
NoModeSetYet ==
    /\ currentMode = "periodic"
    /\ periodicTimer = 0 /\ fileWatcher = 0
    /\ timerSeq = 2 /\ watchers = <<>>
    /\ Len(disposables) = 1

\* A cycle can still be started within the bound on snapshot objects.
CanStartCycle == nextRef <= MaxRefs

\* C34: in periodic and in realtime mode the timer brings about a new refresh
\* cycle without any explicit request.  Once a setMode() has run, a timer is
\* armed whenever the manager is not disposed and the mode is periodic or
\* realtime, whether or not the watcher of realtime mode is watching, and it
\* goes away only by a change to manual mode or by disposal.  With the timer
\* firing and the awaited steps settling, from every state in which a timer
\* is armed a cycle later starts (or the timer has gone away): so a file
\* change that was turned away as busy, or that a watcher which declined to
\* start or stopped on an error never saw, is followed by a new cycle.
C34_TimerDrivesRefresh ==
    /\ [](~isDisposed /\ currentMode \in {"periodic", "realtime"} /\ ~NoModeSetYet =>
            Cardinality(timers) = 1)
    /\ [](~isDisposed /\ currentMode = "realtime" =>
            /\ Cardinality(timers) = 1
            /\ fileWatcher # 0)
    /\ [][timers # {} /\ timers' = {} => isDisposed' \/ currentMode' = "manual"]_vars
    /\ [][watchers' # watchers => timers' = timers \/ ModeTransition \/ Dispose]_vars
    /\ \A n \in 0..(MaxRefs - 1) :
          (count.load = n /\ timers # {} /\ CanStartCycle)
             ~> (count.load > n \/ timers = {} \/ ~CanStartCycle)

\* C34 witness: realtime mode whose watcher is not watching (it declined to
\* start or stopped on an error), no debounce pending, and a second cycle in
\* flight: the timer started it.
C34_Witness ==
    /\ ~isDisposed
    /\ currentMode = "realtime"
    /\ ~watchers[fileWatcher].isWatching
    /\ \A i \in 1..Len(watchers) : ~CanFire(watchers[i])
    /\ Cardinality(timers) = 1
    /\ count.load = 2
    /\ isRefreshing

\* The snapshots a completed cycle stored and published.
StoredOrPublished == {s \in {lastMetrics, published} : s.ref # 0}

\* C35 (as stated): every snapshot stored and published by a completed cycle
\* has exactly one of quota and quotaError set: quota when the remote fetch
\* succeeded, quotaError otherwise, never both absent.
C35_Original ==
    /\ \A s \in StoredOrPublished : (s.quota # "none") # (s.quotaError # "none")
    /\ ret.kind = "done" =>
          (ret.snap.quota # "none") = (ret.q.kind = "result" /\ ret.q.success)

\* A handler of 'refresh started' / of 'snapshot updated' called refresh()
\* in this step.
CalledFrom(at) == reentrant'.calls = reentrant.calls + 1 /\ reentrant'.at = at

\* C36: refresh() is safe against calls made from inside its own notification
\* handlers.  Such a call never passes the guards, so it starts no cycle: one
\* cycle at most is in flight and each executed cycle loads once.  Called
\* from a 'refresh started' handler it is turned away as busy and returns the
\* snapshot that was last known before the cycle (a new empty one if none
\* was), not the object of the cycle that is starting; called from a
\* 'snapshot updated' handler it is turned away as busy and returns the
\* snapshot being published, which is the one just stored.
C36_ReentrantCallsAreTurnedAway ==
    /\ [](reentrant.entry # "run")
    /\ [](Cardinality(inflight) <= 1 /\ count.startedFired = count.load)
    /\ [][CalledFrom("started") =>
            /\ count'.started = count.started + 1
            /\ reentrant'.entry = "busy"
            /\ reentrant'.snap = IF lastMetrics.ref # 0 THEN lastMetrics
                                 ELSE createEmptyMetrics(nextRef)
            /\ \A c \in inflight' : c.metrics.ref # reentrant'.snap.ref
            /\ count'.load = count.load + 1
            /\ lastMetrics' = lastMetrics]_vars
    /\ [][CalledFrom("updated") =>
            /\ count'.updated = count.updated + 1
            /\ reentrant'.entry = "busy"
            /\ reentrant'.snap = published'
            /\ reentrant'.snap = lastMetrics'
            /\ reentrant'.snap = ret'.snap
            /\ count'.load = count.load
            /\ inflight' = {} /\ ~isRefreshing']_vars
    /\ [][reentrant' # reentrant => CalledFrom("started") \/ CalledFrom("updated")]_vars

\* C36 witness: the second cycle has started, and the refresh() call its
\* 'refresh started' handler made returned the snapshot of the first cycle,
\* whose 'snapshot updated' handler had called refresh() too.
C36_Witness ==
    /\ reentrant.at = "started"
    /\ reentrant.entry = "busy"
    /\ reentrant.calls = 2
    /\ reentrant.snap.ref = 1
    /\ reentrant.snap = lastMetrics
    /\ \E c \in inflight : c.metrics.ref = 2
    /\ count.updated = 1

\* C37 (as stated): after dispose() the last-known snapshot never changes
\* again, even when a cycle was in flight when dispose() was called.
C37_Original ==
    [][isDisposed => lastMetrics' = lastMetrics]_vars

\* C37 (amended): after dispose() no refresh() call changes the last-known
\* snapshot or starts a cycle.  The snapshot changes at most by the
\* completion of a cycle that was in flight at dispose(), which stores its
\* snapshot and delivers no notification; once no cycle is in flight it never
\* changes again, and every later refresh() call returns that same reference
\* (a new empty snapshot each time if none was ever stored).
C37_FrozenOnceSettled ==
    /\ [][isDisposed /\ lastMetrics' # lastMetrics =>
            /\ \E c \in Fetching : Settles(c) /\ lastMetrics'.ref = c.metrics.ref
            /\ ret'.kind = "done"
            /\ published' = published
            /\ count'.updated = count.updated]_vars
    /\ [][isDisposed =>
            /\ count'.load = count.load
            /\ \A d \in inflight' : \E c \in inflight : c.metrics.ref = d.metrics.ref]_vars
    /\ [][isDisposed /\ inflight = {} =>
            lastMetrics' = lastMetrics /\ inflight' = {}]_vars
    /\ [][isDisposed /\ EarlyReturn("disposed") =>
            /\ lastMetrics' = lastMetrics
            /\ inflight' = inflight
            /\ ret'.snap = IF lastMetrics.ref # 0 THEN lastMetrics
                           ELSE createEmptyMetrics(nextRef)]_vars

\* C37 witness: a cycle that was in flight at dispose() has completed and
\* stored its snapshot, and a later refresh() call returned that snapshot.
C37_Witness ==
    /\ isDisposed
    /\ inflight = {}
    /\ count.updatedFired = 1 /\ count.updated = 0
    /\ lastMetrics.ref = 1
    /\ ret.kind = "disposed"
    /\ ret.snap = lastMetrics

\* The file-change subscriptions the manager retains in `disposables`.
FileSubscriptions == {k \in 1..Len(disposables) : disposables[k].kind = "fileChanged"}

\* C38 (as stated): mode changes do not accumulate subscriptions.  The
\* retained disposables are the configuration-change listener and at most one
\* file-change subscription, that of the current watcher; none belongs to a
\* watcher of an earlier transition.
C38_Original ==
    /\ Cardinality(FileSubscriptions) <= 1
    /\ \A k \in FileSubscriptions : disposables[k].w = fileWatcher
    /\ ~isDisposed =>
          Cardinality({k \in 1..Len(disposables) : disposables[k].kind = "config"}) = 1

====
